---- MODULE Spec2Model ----
(***************************************************************************)
(* Journey tracker: the status engine and recommendation selector of       *)
(* journey.ts over the Dexie store of db.ts, and the catalog validator of  *)
(* validate-nodes.ts.                                                      *)
(*                                                                         *)
(* JavaScript values are represented as follows.                           *)
(*   - an optional value (T | undefined | null) is a sequence of length    *)
(*     at most one: None is <<>>, Some(x) is <<x>>;                        *)
(*   - an array is a sequence; a Set<string> is a set;                     *)
(*   - a Map<string, V> is a function whose DOMAIN is its key set;         *)
(*   - an object with optional fields is a record that has the field or    *)
(*     has not ("f" \in DOMAIN r).                                         *)
(* Ids are non-empty strings (an empty id is falsy in JavaScript and is    *)
(* not part of the model).                                                 *)
(***************************************************************************)
EXTENDS Integers, Sequences, FiniteSets, TLC

VARIABLES
  nodes,        \* db.nodeDefinitions.toArray(): the catalog, in primary-key order
  rows,         \* db.userNodeStates: nodeId -> row
  settings,     \* db.appSettings.get("global"): None or Some(row)
  prefer,       \* preferNextBySpiral as resolved by the last call (journey.ts:93,130)
  firstPass,    \* statusMap of computeNodeStatuses after its first pass (journey.ts:110)
  statusMap,    \* the status map: returned by computeNodeStatuses / passed to the selector
  nextNodeId,   \* the result of computeRecommendedNextNodeId: None (null) or Some(id)
  returned,     \* TRUE while statusMap/nextNodeId are the result of the last call
  thrown,       \* None, or Some(message) thrown by the last operation
  pc,           \* validate-nodes.ts main(): the check it is about to run
  exitCode,     \* validate-nodes.ts: None while running, Some(process exit code)
  message,      \* validate-nodes.ts: None, or Some(what fail() printed)
  warnings,     \* validate-nodes.ts: what warn() printed, in order
  calls,        \* the journey map: its handlers in flight, each at an await
  shownNodes    \* the journey map: its React state `nodes` (statusMap is its state `statusMap`)

vars == <<nodes, rows, settings, prefer, firstPass, statusMap, nextNodeId, returned,
          thrown, pc, exitCode, message, warnings, calls, shownNodes>>

mapVars == <<calls, shownNodes>>

storeVars == <<nodes, rows, settings, prefer, firstPass, statusMap, nextNodeId,
               returned, thrown, mapVars>>

validatorVars == <<pc, exitCode, message, warnings>>

----------------------------------------------------------------------------
(* Optional values *)

None == <<>>

Some(x) == <<x>>

IsSome(o) == o # <<>>

Get(o) == o[1]

(* The elements of an array, its index range, and Array.prototype.filter   *)
Range(s) == {s[i] : i \in 1..Len(s)}

Filter(s, Keep(_)) == SelectSeq(s, Keep)

(* The empty Map *)
EmptyMap == [k \in {} |-> None]

----------------------------------------------------------------------------
(* Array.prototype.sort(comparefn).  cmp is the comparator tabulated over   *)
(* the array's elements: cmp[x, y] is comparefn(x, y).  With a consistent   *)
(* comparator every engine returns the same stable order; with an           *)
(* inconsistent one the order is implementation-defined, so the engine is   *)
(* a parameter: "timsort" is V8 (Node.js, Chromium), "insertion" is the     *)
(* insertion sort SpiderMonkey uses for arrays shorter than 24.             *)

SortImpls == {"timsort", "insertion"}

(* V8 CountAndMakeRun: the length of the run starting at index 0; idx is    *)
(* the 0-based index of the next element to examine.                        *)
RECURSIVE CountRun(_, _, _, _)
CountRun(a, cmp, isDescending, idx) ==
  IF idx >= Len(a) THEN idx
  ELSE LET order == cmp[a[idx + 1], a[idx]]
       IN  IF (isDescending /\ order >= 0) \/ (~isDescending /\ order < 0)
           THEN idx
           ELSE CountRun(a, cmp, isDescending, idx + 1)

(* V8 ReverseRange(0, n) *)
ReversePrefix(a, n) ==
  [p \in 1..Len(a) |-> IF p <= n THEN a[n + 1 - p] ELSE a[p]]

(* V8 BinaryInsertionSort's search loop; left and right are 0-based.        *)
RECURSIVE BinarySearch(_, _, _, _, _)
BinarySearch(a, cmp, pivot, left, right) ==
  IF left < right
  THEN LET mid == left + ((right - left) \div 2)
           order == cmp[pivot, a[mid + 1]]
       IN  IF order < 0
           THEN BinarySearch(a, cmp, pivot, left, mid)
           ELSE BinarySearch(a, cmp, pivot, mid + 1, right)
  ELSE left

(* V8 BinaryInsertionSort(0, start, Len(a)): [0, start) is already sorted.  *)
RECURSIVE BinaryInsertionSort(_, _, _)
BinaryInsertionSort(a, cmp, start) ==
  IF start >= Len(a) THEN a
  ELSE LET pivot == a[start + 1]
           left == BinarySearch(a, cmp, pivot, 0, start)
           moved == [p \in 1..Len(a) |->
                       IF p - 1 < left THEN a[p]
                       ELSE IF p - 1 = left THEN pivot
                       ELSE IF p - 1 <= start THEN a[p - 1]
                       ELSE a[p]]
       IN  BinaryInsertionSort(moved, cmp, start + 1)

(* V8 ArrayTimSortImpl for an array shorter than its minimum run length.    *)
TimSort(a, cmp) ==
  IF Len(a) < 2 THEN a
  ELSE LET isDescending == cmp[a[2], a[1]] < 0
           runLength == CountRun(a, cmp, isDescending, 2)
           run == IF isDescending THEN ReversePrefix(a, runLength) ELSE a
       IN  BinaryInsertionSort(run, cmp, runLength)

(* SpiderMonkey InsertionSort: item moves down past every swap it is        *)
(* compared greater-than-zero against; j is the 1-based index of swap.      *)
RECURSIVE InsertDown(_, _, _, _)
InsertDown(a, cmp, item, j) ==
  IF j >= 1 /\ cmp[a[j], item] > 0
  THEN InsertDown([a EXCEPT ![j + 1] = a[j]], cmp, item, j - 1)
  ELSE [a EXCEPT ![j + 1] = item]

RECURSIVE InsertionSort(_, _, _)
InsertionSort(a, cmp, i) ==
  IF i > Len(a) THEN a
  ELSE InsertionSort(InsertDown(a, cmp, a[i], i - 1), cmp, i + 1)

ArraySort(a, cmp, impl) ==
  IF impl = "timsort" THEN TimSort(a, cmp) ELSE InsertionSort(a, cmp, 2)

----------------------------------------------------------------------------
(* journey.ts *)

(* A getCompletedNodeIds that reads the timestamps: a row counts when its   *)
(* completedAt is its updatedAt.                                            *)
getCompletedNodeIdsByTime(rs) ==
  {id \in DOMAIN rs : rs[id].completedAt = Some(rs[id].updatedAt)}

(* getCompletedNodeIds: the ids of the rows whose completedAt is truthy.    *)
getCompletedNodeIds(rs) ==
  {id \in DOMAIN rs : IsSome(rs[id].completedAt)}

(* A depsMet that keeps the met dependencies instead of the unmet ones.     *)
depsMetInverted(node, completed) ==
  LET unmet == Filter(node.dependencies, LAMBDA d : d \in completed)
  IN  [ok |-> Len(unmet) = 0, unmet |-> unmet]

(* depsMet(node, completed) *)
depsMet(node, completed) ==
  LET unmet == Filter(node.dependencies, LAMBDA d : d \notin completed)
  IN  [ok |-> Len(unmet) = 0, unmet |-> unmet]

(* A first pass that tests the dependencies before the completion set: a    *)
(* completed node with an unmet dependency is entered as "locked".          *)
FirstPassEntryLockFirst(n, completed) ==
  LET r == depsMet(n, completed)
  IN  IF ~r.ok
      THEN [nodeId |-> n.id, status |-> "locked", unmetDependencies |-> r.unmet]
      ELSE IF n.id \in completed
           THEN [nodeId |-> n.id, status |-> "completed"]
           ELSE [nodeId |-> n.id, status |-> "available"]

(* The entry the first pass sets for node n.                                *)
FirstPassEntry(n, completed) ==
  IF n.id \in completed
  THEN [nodeId |-> n.id, status |-> "completed"]
  ELSE LET r == depsMet(n, completed)
       IN  IF ~r.ok
           THEN [nodeId |-> n.id, status |-> "locked", unmetDependencies |-> r.unmet]
           ELSE [nodeId |-> n.id, status |-> "available"]

(* The first pass: statusMap.set(n.id, ...) for every node in order (a      *)
(* later set of the same key overwrites an earlier one).                    *)
FirstPassMap(ns, completed) ==
  [id \in {ns[i].id : i \in 1..Len(ns)} |->
     LET last == CHOOSE i \in 1..Len(ns) :
                   /\ ns[i].id = id
                   /\ \A j \in 1..Len(ns) : ns[j].id = id => j <= i
     IN  FirstPassEntry(ns[last], completed)]

(* statusMap.get(id)?.status === "available" *)
IsAvailable(sm, id) ==
  id \in DOMAIN sm /\ sm[id].status = "available"

(* (a, b) => a.ui_position.spiral.order - b.ui_position.spiral.order        *)
SpiralOrderCompare(a, b) ==
  Get(a.ui_position.spiral).order - Get(b.ui_position.spiral).order

(* A comparator that sorts ascending by overlap.                            *)
ScoredCompareAscending(a, b) ==
  IF a.overlap - b.overlap # 0 THEN a.overlap - b.overlap
  ELSE IF b.isSpiral THEN 1 ELSE -1

(* (a, b) => (b.overlap - a.overlap) || (b.isSpiral ? 1 : -1)               *)
ScoredCompare(a, b) ==
  IF b.overlap - a.overlap # 0 THEN b.overlap - a.overlap
  ELSE IF b.isSpiral THEN 1 ELSE -1

(* (n.tags).reduce((acc, t) => acc + (currentTags.has(t) ? 1 : 0), 0)       *)
TagOverlap(tags, currentTags) ==
  Len(Filter(tags, LAMBDA t : t \in currentTags))

(* Array.prototype.find: None, or Some(first element satisfying Test).      *)
Find(s, Test(_)) ==
  LET hits == Filter(s, Test)
  IN  IF Len(hits) = 0 THEN None ELSE Some(hits[1])

(* A spiral branch that looks for an order strictly above the current one. *)
SpiralChoiceStrictlyAfter(available, st, impl) ==
  LET candidates == Filter(available, LAMBDA n :
                      n.type = "spiral" /\ IsSome(n.ui_position.spiral))
      cmp == [a \in Range(candidates), b \in Range(candidates) |->
                SpiralOrderCompare(a, b)]
      spirals == ArraySort(candidates, cmp, impl)
      currentOrder == IF IsSome(st) THEN Get(st).currentSpiralOrder ELSE None
      after == IF IsSome(currentOrder)
               THEN Find(spirals, LAMBDA n :
                      Get(n.ui_position.spiral).order > Get(currentOrder))
               ELSE None
  IN  IF IsSome(after) THEN Some(Get(after).id)
      ELSE IF Len(spirals) > 0 THEN Some(spirals[1].id)
      ELSE None

(* The spiral branch of computeRecommendedNextNodeId (journey.ts:137-149):  *)
(* None when it falls through to the tag fallback.                          *)
SpiralChoice(available, st, impl) ==
  LET candidates == Filter(available, LAMBDA n :
                      n.type = "spiral" /\ IsSome(n.ui_position.spiral))
      cmp == [a \in Range(candidates), b \in Range(candidates) |->
                SpiralOrderCompare(a, b)]
      spirals == ArraySort(candidates, cmp, impl)
      currentOrder == IF IsSome(st) THEN Get(st).currentSpiralOrder ELSE None
      after == IF IsSome(currentOrder)
               THEN Find(spirals, LAMBDA n :
                      Get(n.ui_position.spiral).order >= Get(currentOrder))
               ELSE None
  IN  IF IsSome(after) THEN Some(Get(after).id)
      ELSE IF Len(spirals) > 0 THEN Some(spirals[1].id)
      ELSE None

(* A tag fallback that, without a current node, returns nodes[0] instead    *)
(* of available[0].                                                         *)
TagFallbackFirstNode(ns, available, st, impl) ==
  LET currentId == IF IsSome(st) THEN Get(st).currentNodeId ELSE None
      current == IF IsSome(currentId)
                 THEN Find(ns, LAMBDA n : n.id = Get(currentId))
                 ELSE None
      currentTags == Range(Get(current).tags)
      mapped == [i \in 1..Len(available) |->
                   [id |-> available[i].id,
                    overlap |-> TagOverlap(available[i].tags, currentTags),
                    isSpiral |-> available[i].type = "spiral"]]
      cmp == [a \in Range(mapped), b \in Range(mapped) |-> ScoredCompare(a, b)]
      scored == ArraySort(mapped, cmp, impl)
  IN  IF ~IsSome(current) THEN ns[1].id
      ELSE scored[1].id

(* A tag fallback that, without a current node, returns the last available *)
(* node instead of available[0].                                            *)
TagFallbackLastAvailable(ns, available, st, impl) ==
  LET currentId == IF IsSome(st) THEN Get(st).currentNodeId ELSE None
      current == IF IsSome(currentId)
                 THEN Find(ns, LAMBDA n : n.id = Get(currentId))
                 ELSE None
      currentTags == Range(Get(current).tags)
      mapped == [i \in 1..Len(available) |->
                   [id |-> available[i].id,
                    overlap |-> TagOverlap(available[i].tags, currentTags),
                    isSpiral |-> available[i].type = "spiral"]]
      cmp == [a \in Range(mapped), b \in Range(mapped) |-> ScoredCompare(a, b)]
      scored == ArraySort(mapped, cmp, impl)
  IN  IF ~IsSome(current) THEN available[Len(available)].id
      ELSE scored[1].id

(* The tag fallback of computeRecommendedNextNodeId (journey.ts:151-164);   *)
(* available is not empty.                                                  *)
TagFallback(ns, available, st, impl) ==
  LET currentId == IF IsSome(st) THEN Get(st).currentNodeId ELSE None
      current == IF IsSome(currentId)
                 THEN Find(ns, LAMBDA n : n.id = Get(currentId))
                 ELSE None
      currentTags == Range(Get(current).tags)
      mapped == [i \in 1..Len(available) |->
                   [id |-> available[i].id,
                    overlap |-> TagOverlap(available[i].tags, currentTags),
                    isSpiral |-> available[i].type = "spiral"]]
      cmp == [a \in Range(mapped), b \in Range(mapped) |-> ScoredCompare(a, b)]
      scored == ArraySort(mapped, cmp, impl)
  IN  IF ~IsSome(current) THEN available[1].id
      ELSE scored[1].id

(* A selector without the early "return null": with nothing available it   *)
(* returns nodes[0].id.                                                     *)
computeRecommendedNextNodeIdNeverNull(ns, sm, st, opts, impl) ==
  LET preferNextBySpiral == IF IsSome(opts) THEN Get(opts) ELSE TRUE
      available == Filter(ns, LAMBDA n : IsAvailable(sm, n.id))
      spiral == IF preferNextBySpiral THEN SpiralChoice(available, st, impl) ELSE None
  IN  IF Len(available) = 0 THEN Some(ns[1].id)
      ELSE IF IsSome(spiral) THEN spiral
      ELSE Some(TagFallback(ns, available, st, impl))

(* computeRecommendedNextNodeId(nodes, statusMap, settings, opts), on the   *)
(* engine impl.  opts is None or Some(preferNextBySpiral).                  *)
computeRecommendedNextNodeId(ns, sm, st, opts, impl) ==
  LET preferNextBySpiral == IF IsSome(opts) THEN Get(opts) ELSE TRUE
      available == Filter(ns, LAMBDA n : IsAvailable(sm, n.id))
      spiral == IF preferNextBySpiral THEN SpiralChoice(available, st, impl) ELSE None
  IN  IF Len(available) = 0 THEN None
      ELSE IF IsSome(spiral) THEN spiral
      ELSE Some(TagFallback(ns, available, st, impl))

(* A promotion that does not look at the entry's status.                    *)
PromoteAnyEntry(sm, next) ==
  IF IsSome(next) /\ Get(next) \in DOMAIN sm
  THEN [sm EXCEPT ![Get(next)] =
          [status |-> "next", recommendedReason |-> "recommended_next"] @@ @]
  ELSE sm

(* The second pass of computeNodeStatuses (journey.ts:112-119): the         *)
(* promotion of the selected entry, applied only to an available entry.     *)
Promote(sm, next) ==
  IF IsSome(next) /\ IsAvailable(sm, Get(next))
  THEN [sm EXCEPT ![Get(next)] =
          [status |-> "next", recommendedReason |-> "recommended_next"] @@ @]
  ELSE sm

(* computeNodeStatuses on what its three reads returned.                    *)
computeNodeStatuses(ns, completed, st, opts, impl) ==
  LET preferNextBySpiral == IF IsSome(opts) THEN Get(opts) ELSE TRUE
      pass1 == FirstPassMap(ns, completed)
      next == computeRecommendedNextNodeId(ns, pass1, st, Some(preferNextBySpiral), impl)
  IN  Promote(pass1, next)

----------------------------------------------------------------------------
(* The store: the catalogs it is seeded with, and its state after seeding.  *)

(* The ids a catalog draws from, in primary-key order (toArray's order).    *)
IdOrder == <<"a", "b", "c">>

Ids == Range(IdOrder)

Position(id) == CHOOSE i \in 1..Len(IdOrder) : IdOrder[i] = id

(* Arrays without repetition of at most two elements of S.                  *)
ShortLists(S) ==
  {<<>>} \cup {<<x>> : x \in S}
         \cup {<<p[1], p[2]>> : p \in {q \in S \X S : q[1] # q[2]}}

SpiralAt(o) == [spiral |-> Some([order |-> o]), tree |-> None]

NoPosition == [spiral |-> None, tree |-> None]

(* What a catalog of the store fixes besides ids and dependencies: two      *)
(* authored shapes, a spiral track and a mixed catalog.                     *)
KindProfiles ==
  { [a |-> [type |-> "spiral", tags |-> <<"x">>, ui_position |-> SpiralAt(2)],
     b |-> [type |-> "spiral", tags |-> <<"x", "y">>, ui_position |-> SpiralAt(3)],
     c |-> [type |-> "spiral", tags |-> <<"y">>, ui_position |-> SpiralAt(1)]],
    [a |-> [type |-> "tree", tags |-> <<"x", "y">>, ui_position |-> NoPosition],
     b |-> [type |-> "spiral", tags |-> <<"x">>, ui_position |-> SpiralAt(1)],
     c |-> [type |-> "hybrid", tags |-> <<"y">>, ui_position |-> SpiralAt(2)]] }

NodeDefinition(id, kind, deps) ==
  [id |-> id, type |-> kind.type, dependencies |-> deps,
   tags |-> kind.tags, ui_position |-> kind.ui_position]

(* The catalogs: every subset of Ids in key order, every kind profile, and  *)
(* for every node every short list of other ids as its dependencies (an id  *)
(* outside the subset is a dependency on a node the catalog does not have). *)
StoreCatalogs ==
  UNION { UNION { { LET present == Filter(IdOrder, LAMBDA id : id \in S)
                    IN  [i \in 1..Len(present) |->
                           NodeDefinition(present[i], profile[present[i]], deps[present[i]])]
                    : deps \in [S -> ShortLists(Ids)] \cap
                               {d \in [S -> ShortLists(Ids)] :
                                  \A id \in S : id \notin Range(d[id])} }
                  : profile \in KindProfiles }
          : S \in SUBSET Ids }

NodeIdsOf(ns) == {ns[i].id : i \in 1..Len(ns)}

(* The settings row after seedNodeDefinitionsFromUrl (seed.ts:51-54; no    *)
(* catalog of the model has a node "ego_formation") and after the settings  *)
(* page saved an API key, which keeps the other two fields.                 *)
SeededSettings(ns) ==
  LET firstSpiral == Find(ns, LAMBDA n : n.type = "spiral")
  IN  Some([currentNodeId |-> Some(IF IsSome(firstSpiral) THEN Get(firstSpiral).id
                                   ELSE "ego_formation"),
            currentSpiralOrder |-> Some(1),
            openAiApiKey |-> Some("sk")])

(* appSettings after seeding, or after a factory reset cleared it.          *)
InitSettings(ns) == {None, SeededSettings(ns)}

(* nowIso(): in Spec the clock is not part of the model and every           *)
(* timestamp is "iso"; SpecClock draws the timestamps from Times.           *)
nowIso == "iso"

(* ensureUserNodeStateRows on an empty table at time now (seed.ts:66-85)    *)
SeededRowsAt(ns, now) ==
  [id \in NodeIdsOf(ns) |-> [nodeId |-> id, completedAt |-> None, updatedAt |-> now]]

SeededRows(ns) == SeededRowsAt(ns, nowIso)

(* The validator is a separate program: it does not run on the store.      *)
(* No journey map is mounted.                                               *)
MapIdle ==
  /\ calls = EmptyMap
  /\ shownNodes = <<>>

ValidatorIdle ==
  /\ pc = "idle"
  /\ exitCode = None
  /\ message = None
  /\ warnings = <<>>

NoResult ==
  /\ firstPass' = EmptyMap
  /\ statusMap' = EmptyMap
  /\ nextNodeId' = None
  /\ prefer' = TRUE
  /\ returned' = FALSE

Init ==
  /\ nodes \in StoreCatalogs
  /\ rows = SeededRows(nodes)
  /\ settings \in InitSettings(nodes)
  /\ prefer = TRUE
  /\ firstPass = EmptyMap
  /\ statusMap = EmptyMap
  /\ nextNodeId = None
  /\ returned = FALSE
  /\ thrown = None
  /\ ValidatorIdle
  /\ MapIdle

(* A markNodeCompleted that stamps completedAt whatever the flag.           *)
markNodeCompletedAlways(rs, nodeId, completed, completedAt, updatedAt) ==
  IF nodeId \notin DOMAIN rs
  THEN [thrown |-> Some("Missing UserNodeState"), rows |-> rs]
  ELSE [thrown |-> None,
        rows |-> [rs EXCEPT ![nodeId] =
                    [@ EXCEPT !.completedAt = Some(completedAt),
                              !.updatedAt = updatedAt]]]

(* A markNodeCompleted that creates the row when there is none (put without *)
(* the test of the row).                                                    *)
markNodeCompletedUpsert(rs, nodeId, completed, completedAt, updatedAt) ==
  [thrown |-> None,
   rows |-> [id \in DOMAIN rs \cup {nodeId} |->
               IF id = nodeId
               THEN [nodeId |-> id,
                     completedAt |-> IF completed THEN Some(completedAt) ELSE None,
                     updatedAt |-> updatedAt]
               ELSE rs[id]]]

(* markNodeCompleted(nodeId, completed) on the table rs: what it throws and *)
(* the table it leaves; completedAt and updatedAt are what its two calls    *)
(* of nowIso() return.                                                      *)
markNodeCompleted(rs, nodeId, completed, completedAt, updatedAt) ==
  IF nodeId \notin DOMAIN rs
  THEN [thrown |-> Some("Missing UserNodeState"), rows |-> rs]
  ELSE [thrown |-> None,
        rows |-> [rs EXCEPT ![nodeId] =
                    [@ EXCEPT !.completedAt =
                                IF completed THEN Some(completedAt) ELSE None,
                              !.updatedAt = updatedAt]]]

(* A call of markNodeCompleted whose clock reads return completedAt and     *)
(* updatedAt.                                                               *)
MarkNodeCompletedAt(nodeId, completed, completedAt, updatedAt) ==
  LET call == markNodeCompleted(rows, nodeId, completed, completedAt, updatedAt)
  IN  /\ rows' = call.rows
      /\ thrown' = call.thrown
      /\ IF IsSome(call.thrown)
         THEN UNCHANGED <<prefer, firstPass, statusMap, nextNodeId, returned>>
         ELSE NoResult
      /\ UNCHANGED <<nodes, settings, validatorVars, mapVars>>

(* markNodeCompleted(nodeId, completed) *)
MarkNodeCompleted(nodeId, completed) ==
  MarkNodeCompletedAt(nodeId, completed, nowIso, nowIso)

(* A setCurrentNode that writes only the current node.                      *)
setCurrentNodeAlone(st, nodeId) ==
  Some([currentNodeId |-> Some(nodeId),
        currentSpiralOrder |-> None,
        openAiApiKey |-> None])

(* setCurrentNode (journey.ts:71-83) on the settings row st its get        *)
(* returned: the row it puts. modelChat, modelExtract, modelSummarize,      *)
(* updatedAt and key are not represented.                                   *)
setCurrentNode(st, nodeId) ==
  Some([currentNodeId |-> Some(nodeId),
        currentSpiralOrder |->
          IF IsSome(st) THEN Get(st).currentSpiralOrder ELSE None,
        openAiApiKey |->
          IF IsSome(st) THEN Get(st).openAiApiKey ELSE None])

(* setCurrentNode(nodeId), its get and its put taken together.              *)
SetCurrentNode(nodeId) ==
  /\ settings' = setCurrentNode(settings, nodeId)
  /\ thrown' = None
  /\ NoResult
  /\ UNCHANGED <<nodes, rows, validatorVars, mapVars>>

(* computeNodeStatuses(opts), its three reads taken together, on engine     *)
(* impl.                                                                    *)
ComputeNodeStatuses(opts, impl) ==
  LET completed == getCompletedNodeIds(rows)
      preferNextBySpiral == IF IsSome(opts) THEN Get(opts) ELSE TRUE
      pass1 == FirstPassMap(nodes, completed)
  IN  /\ prefer' = preferNextBySpiral
      /\ firstPass' = pass1
      /\ nextNodeId' = computeRecommendedNextNodeId(
                         nodes, pass1, settings, Some(preferNextBySpiral), impl)
      /\ statusMap' = computeNodeStatuses(nodes, completed, settings, opts, impl)
      /\ returned' = TRUE
      /\ thrown' = None
      /\ UNCHANGED <<nodes, rows, settings, validatorVars, mapVars>>

Next ==
  \/ \E id \in Ids, completed \in BOOLEAN : MarkNodeCompleted(id, completed)
  \/ \E id \in Ids : SetCurrentNode(id)
  \/ \E opts \in {None, Some(TRUE), Some(FALSE)}, impl \in SortImpls :
       ComputeNodeStatuses(opts, impl)

Spec == Init /\ [][Next]_vars

----------------------------------------------------------------------------
(* computeRecommendedNextNodeId as an exported pure function: its           *)
(* arguments are drawn by Init and one call applies it.                     *)

(* The largest spiral order of the selector's inputs.                       *)
MaxOrder == 3

(* A status map as an argument: the ids in avail are "available", the       *)
(* others "completed".                                                      *)
ArgumentStatusMap(avail) ==
  [id \in Ids |->
     [nodeId |-> id, status |-> IF id \in avail THEN "available" ELSE "completed"]]

ArgumentNodes(kinds) ==
  [i \in 1..Len(IdOrder) |-> NodeDefinition(IdOrder[i], kinds[IdOrder[i]], <<>>)]

(* Spiral inputs: spiral nodes at every order, a spiral node without a      *)
(* spiral position, a hybrid node with one, a tree node.                    *)
SpiralKinds ==
  {[type |-> "spiral", tags |-> <<>>, ui_position |-> SpiralAt(o)] : o \in 1..MaxOrder}
  \cup {[type |-> "spiral", tags |-> <<>>, ui_position |-> NoPosition],
        [type |-> "hybrid", tags |-> <<>>, ui_position |-> SpiralAt(1)],
        [type |-> "tree", tags |-> <<>>, ui_position |-> NoPosition]}

SpiralSettings ==
  {None} \cup
  {Some([currentNodeId |-> None, currentSpiralOrder |-> o]) :
     o \in {None} \cup {Some(k) : k \in 0..(MaxOrder + 1)}}

SelectorIdle ==
  /\ rows = EmptyMap
  /\ firstPass = EmptyMap
  /\ nextNodeId = None
  /\ returned = FALSE
  /\ thrown = None
  /\ ValidatorIdle
  /\ MapIdle

InitSpiral ==
  /\ \E kinds \in [Ids -> SpiralKinds] : nodes = ArgumentNodes(kinds)
  /\ \E avail \in SUBSET Ids : statusMap = ArgumentStatusMap(avail)
  /\ settings \in SpiralSettings
  /\ prefer \in BOOLEAN
  /\ SelectorIdle

(* Tag inputs: tags over {x, y}; a spiral candidate, a spiral node without  *)
(* a position and a tree node; a current node that is set, unset or names   *)
(* no node of the catalog.                                                  *)
TagKinds ==
  {[type |-> k.type, tags |-> t, ui_position |-> k.ui_position] :
     k \in {[type |-> "spiral", ui_position |-> SpiralAt(1)],
            [type |-> "spiral", ui_position |-> NoPosition],
            [type |-> "tree", ui_position |-> NoPosition]},
     t \in {<<>>, <<"x">>, <<"x", "y">>}}

TagSettings ==
  {None} \cup
  {Some([currentNodeId |-> Some(c), currentSpiralOrder |-> None]) :
     c \in Ids \cup {"zz"}}

InitTags ==
  /\ \E kinds \in [Ids -> TagKinds] : nodes = ArgumentNodes(kinds)
  /\ \E avail \in SUBSET Ids : statusMap = ArgumentStatusMap(avail)
  /\ settings \in TagSettings
  /\ prefer \in BOOLEAN
  /\ SelectorIdle

(* One call computeRecommendedNextNodeId(nodes, statusMap, settings, opts)  *)
(* on engine impl; prefer is what opts resolves to.                         *)
RecommendNext(opts, impl) ==
  /\ ~returned
  /\ prefer = (IF IsSome(opts) THEN Get(opts) ELSE TRUE)
  /\ nextNodeId' = computeRecommendedNextNodeId(nodes, statusMap, settings, opts, impl)
  /\ returned' = TRUE
  /\ UNCHANGED <<nodes, rows, settings, prefer, firstPass, statusMap, thrown,
                 validatorVars, mapVars>>

NextSelector ==
  \E opts \in {None, Some(TRUE), Some(FALSE)}, impl \in SortImpls :
    RecommendNext(opts, impl)

SpecSpiral == InitSpiral /\ [][NextSelector]_vars

SpecTags == InitTags /\ [][NextSelector]_vars

----------------------------------------------------------------------------
(* validate-nodes.ts.  main() runs on nodesFile.nodes (the variable nodes)  *)
(* after the JSON Schema validation passed; fail() ends the process.        *)

(* A variant of CyclePath that reports the whole stack.                     *)
CyclePathWholeStack(stack, id) == stack \o <<id>>

(* stack.slice(stack.indexOf(id)).concat(id); indexOf is -1 when id is not  *)
(* on the stack, and slice(-1) is then the last element.                    *)
CyclePath(stack, id) ==
  LET hits == {i \in 1..Len(stack) : stack[i] = id}
      cycleStart == IF hits = {} THEN Len(stack)
                    ELSE CHOOSE i \in hits : \A j \in hits : i <= j
  IN  (IF Len(stack) = 0 THEN <<>> ELSE SubSeq(stack, cycleStart, Len(stack)))
      \o <<id>>

(* dfs(id, stack) of detectCycles.  st is [visiting, visited, failed]:      *)
(* failed is None, or Some(message) once fail() has ended the process.      *)
RECURSIVE dfs(_, _, _, _, _)
RECURSIVE dfsDeps(_, _, _, _, _, _, _)
(* A variant of dfsDeps without the check "if (!ids.has(d)) fail(...)".      *)
dfsDepsUnchecked(ids, depsMap, st, id, deps, k, stack) ==
  IF IsSome(st.failed) \/ k > Len(deps) THEN st
  ELSE dfsDeps(ids, depsMap,
               dfs(ids, depsMap, st, deps[k], stack \o <<id>>),
               id, deps, k + 1, stack)

(* A variant of dfs without "visiting.delete(id)": a node stays gray once   *)
(* it was entered.                                                          *)
dfsKeepsVisiting(ids, depsMap, st, id, stack) ==
  IF IsSome(st.failed) THEN st
  ELSE IF id \in st.visiting
  THEN [st EXCEPT !.failed = Some([kind |-> "cycle", cycle |-> CyclePath(stack, id)])]
  ELSE IF id \in st.visited THEN st
  ELSE LET entered == [st EXCEPT !.visiting = @ \cup {id}]
           deps == IF id \in DOMAIN depsMap THEN depsMap[id] ELSE <<>>
           after == dfsDeps(ids, depsMap, entered, id, deps, 1, stack)
       IN  IF IsSome(after.failed) THEN after
           ELSE [after EXCEPT !.visited = @ \cup {id}]

dfs(ids, depsMap, st, id, stack) ==
  IF IsSome(st.failed) THEN st
  ELSE IF id \in st.visiting
  THEN [st EXCEPT !.failed = Some([kind |-> "cycle", cycle |-> CyclePath(stack, id)])]
  ELSE IF id \in st.visited THEN st
  ELSE LET entered == [st EXCEPT !.visiting = @ \cup {id}]
           deps == IF id \in DOMAIN depsMap THEN depsMap[id] ELSE <<>>
           after == dfsDeps(ids, depsMap, entered, id, deps, 1, stack)
       IN  IF IsSome(after.failed) THEN after
           ELSE [after EXCEPT !.visiting = @ \ {id}, !.visited = @ \cup {id}]

(* The loop "for (const d of deps)" of dfs, from its k-th iteration.        *)
dfsDeps(ids, depsMap, st, id, deps, k, stack) ==
  IF IsSome(st.failed) \/ k > Len(deps) THEN st
  ELSE IF deps[k] \notin ids
  THEN [st EXCEPT !.failed =
          Some([kind |-> "missing_dependency", node |-> id, missing |-> deps[k]])]
  ELSE dfsDeps(ids, depsMap,
               dfs(ids, depsMap, st, deps[k], stack \o <<id>>),
               id, deps, k + 1, stack)

(* The loop "for (const id of ids) dfs(id, [])", from its k-th iteration;   *)
(* idSeq is the Set ids in insertion order.                                 *)
RECURSIVE dfsAll(_, _, _, _, _)
dfsAll(ids, depsMap, st, idSeq, k) ==
  IF IsSome(st.failed) \/ k > Len(idSeq) THEN st
  ELSE dfsAll(ids, depsMap, dfs(ids, depsMap, st, idSeq[k], <<>>), idSeq, k + 1)

(* detectCycles(ids, depsMap): None, or Some(message) of its fail().        *)
detectCycles(idSeq, depsMap) ==
  dfsAll(Range(idSeq), depsMap,
         [visiting |-> {}, visited |-> {}, failed |-> None], idSeq, 1).failed

(* The last node of ns with the id: Map.set overwrites.                     *)
LastWithId(ns, id) ==
  ns[CHOOSE i \in 1..Len(ns) :
       /\ ns[i].id = id
       /\ \A j \in 1..Len(ns) : ns[j].id = id => j <= i]

(* An id check that finds nothing.                                          *)
NoDuplicate(ns) == 0

(* The first index at which the id check of main (validate-nodes.ts:84-87)  *)
(* meets an id again: 0 when there is none.                                 *)
FirstDuplicate(ns) ==
  LET dups == {i \in 1..Len(ns) : \E j \in 1..(i - 1) : ns[j].id = ns[i].id}
  IN  IF dups = {} THEN 0 ELSE CHOOSE i \in dups : \A j \in dups : i <= j

(* A tree parent check without the test "if (!ids.has(parent)) fail(...)". *)
TreeParentFailureTypeOnly(ns, n) ==
  LET tp == n.ui_position.tree
      parent == Get(tp).parent_id
      pt == LastWithId(ns, Get(parent)).type
  IN  IF ~IsSome(tp) THEN None
      ELSE IF ~IsSome(parent) THEN None
      ELSE IF Get(parent) \notin NodeIdsOf(ns) THEN None
      ELSE IF pt # "tree" /\ pt # "hybrid"
      THEN Some([kind |-> "parent_type", node |-> n.id, parent |-> Get(parent),
                 type |-> pt])
      ELSE None

(* A tree parent check without the test of the parent's type.               *)
TreeParentFailureExistenceOnly(ns, n) ==
  LET tp == n.ui_position.tree
      parent == Get(tp).parent_id
  IN  IF ~IsSome(tp) THEN None
      ELSE IF ~IsSome(parent) THEN None
      ELSE IF Get(parent) \notin NodeIdsOf(ns)
      THEN Some([kind |-> "missing_parent", node |-> n.id, parent |-> Get(parent)])
      ELSE None

(* The tree parent check of one node (validate-nodes.ts:99-107): None, or   *)
(* Some(message).                                                           *)
TreeParentFailure(ns, n) ==
  LET tp == n.ui_position.tree
      parent == Get(tp).parent_id
      pt == LastWithId(ns, Get(parent)).type
  IN  IF ~IsSome(tp) THEN None
      ELSE IF ~IsSome(parent) THEN None
      ELSE IF Get(parent) \notin NodeIdsOf(ns)
      THEN Some([kind |-> "missing_parent", node |-> n.id, parent |-> Get(parent)])
      ELSE IF pt # "tree" /\ pt # "hybrid"
      THEN Some([kind |-> "parent_type", node |-> n.id, parent |-> Get(parent),
                 type |-> pt])
      ELSE None

(* The minimum distances of main.                                           *)
TREE_MIN_DIST == 8

SPIRAL_MIN_DIST == 12

(* distance(a, b) <= min.                                                   *)
CloserOrAt(a, b, min) ==
  LET dx == a.x - b.x
      dy == a.y - b.y
  IN  dx * dx + dy * dy <= min * min

(* distance(a, b) < min, for points with integer coordinates: the square    *)
(* root is below min exactly when the sum of squares is below min squared.  *)
CloserThan(a, b, min) ==
  LET dx == a.x - b.x
      dy == a.y - b.y
  IN  dx * dx + dy * dy < min * min

(* polarToXY for an angle of theta quarter turns, where the cosine and the  *)
(* sine are 0, 1 or -1.                                                     *)
polarToXY(sp) ==
  LET q == sp.theta % 4
  IN  [x |-> sp.radius * (IF q = 0 THEN 1 ELSE IF q = 2 THEN -1 ELSE 0),
       y |-> sp.radius * (IF q = 1 THEN 1 ELSE IF q = 3 THEN -1 ELSE 0)]

(* The pairs (i, j), i < j, of an array's indices in the order the nested   *)
(* loops of main visit them.                                                *)
RECURSIVE PairsFrom(_, _, _)
PairsFrom(n, i, j) ==
  IF i > n THEN <<>>
  ELSE IF j > n THEN PairsFrom(n, i + 1, i + 2)
  ELSE <<<<i, j>>>> \o PairsFrom(n, i, j + 1)

(* The warnings of one layout group (validate-nodes.ts:116-137).            *)
SpacingWarnings(group, kind, Point(_), min) ==
  LET pairs == PairsFrom(Len(group), 1, 2)
      close == Filter(pairs, LAMBDA p :
                 CloserThan(Point(group[p[1]]), Point(group[p[2]]), min))
  IN  [k \in 1..Len(close) |->
         [kind |-> kind, a |-> group[close[k][1]].id, b |-> group[close[k][2]].id]]

(* A fail that prints and exits with code 0.                                *)
FailWithZero(msg) ==
  /\ message' = Some(msg)
  /\ exitCode' = Some(0)
  /\ pc' = "exit"
  /\ UNCHANGED warnings

(* fail(msg): prints and exits with code 1.                                 *)
Fail(msg) ==
  /\ message' = Some(msg)
  /\ exitCode' = Some(1)
  /\ pc' = "exit"
  /\ UNCHANGED warnings

(* main, lines 82-87: the duplicate id check.                               *)
CheckDuplicateIds ==
  /\ pc = "ids"
  /\ LET dup == FirstDuplicate(nodes)
     IN  IF dup # 0
         THEN Fail([kind |-> "duplicate_id", node |-> nodes[dup].id])
         ELSE /\ pc' = "cycles"
              /\ UNCHANGED <<exitCode, message, warnings>>
  /\ UNCHANGED storeVars

(* main, lines 89-96: depsMap and detectCycles.                             *)
DetectCycles ==
  /\ pc = "cycles"
  /\ LET idSeq == [i \in 1..Len(nodes) |-> nodes[i].id]
         depsMap == [id \in NodeIdsOf(nodes) |-> LastWithId(nodes, id).dependencies]
         failed == detectCycles(idSeq, depsMap)
     IN  IF IsSome(failed)
         THEN Fail(Get(failed))
         ELSE /\ pc' = "parents"
              /\ UNCHANGED <<exitCode, message, warnings>>
  /\ UNCHANGED storeVars

(* main, lines 98-108: the tree parent checks, in catalog order.            *)
CheckTreeParents ==
  /\ pc = "parents"
  /\ LET failing == Filter(nodes, LAMBDA n : IsSome(TreeParentFailure(nodes, n)))
     IN  IF Len(failing) > 0
         THEN Fail(Get(TreeParentFailure(nodes, failing[1])))
         ELSE /\ pc' = "spacing"
              /\ UNCHANGED <<exitCode, message, warnings>>
  /\ UNCHANGED storeVars

(* main, lines 110-139: the spacing warnings, then the normal end.          *)
CheckSpacing ==
  /\ pc = "spacing"
  /\ LET treeNodes == Filter(nodes, LAMBDA n : IsSome(n.ui_position.tree))
         spiralNodes == Filter(nodes, LAMBDA n : IsSome(n.ui_position.spiral))
     IN  warnings' =
           SpacingWarnings(treeNodes, "tree",
                           LAMBDA n : Get(n.ui_position.tree), TREE_MIN_DIST)
           \o SpacingWarnings(spiralNodes, "spiral",
                              LAMBDA n : polarToXY(Get(n.ui_position.spiral)),
                              SPIRAL_MIN_DIST)
  /\ pc' = "exit"
  /\ exitCode' = Some(0)
  /\ UNCHANGED message
  /\ UNCHANGED storeVars

NextValidator ==
  \/ CheckDuplicateIds
  \/ DetectCycles
  \/ CheckTreeParents
  \/ CheckSpacing

(* The nodes files the validator is run on.                                 *)

Types == {"spiral", "tree", "hybrid"}

(* A tree position at (x, y) with the given parent_id (None is null).       *)
TreeAt(x, y, parent) ==
  [spiral |-> None, tree |-> Some([x |-> x, y |-> y, parent_id |-> parent])]

(* Tree positions far enough apart to draw no warning.                      *)
SpacedTree(id, parent) == TreeAt(10 * Position(id), 0, parent)

FileNode(id, type, deps, position) ==
  [id |-> id, type |-> type, dependencies |-> deps, tags |-> <<>>,
   ui_position |-> position]

(* The ids of S in key order, and in the reverse order.                     *)
Orders(S) ==
  LET up == Filter(IdOrder, LAMBDA id : id \in S)
  IN  {up, [i \in 1..Len(up) |-> up[Len(up) + 1 - i]]}

(* Dependency files: unique ids, every short list of ids as a node's        *)
(* dependencies (itself and ids the file does not have included).           *)
DependencyFiles ==
  UNION { UNION { { [i \in 1..Len(order) |->
                       FileNode(order[i], "tree", deps[order[i]],
                                SpacedTree(order[i], None))]
                    : deps \in [S -> ShortLists(Ids)] }
                  : order \in Orders(S) }
          : S \in (SUBSET Ids) \ {{}} }

(* Tree files: unique ids in key order, no dependencies, every type, and    *)
(* for every node no tree position, a root position, or any id as parent.   *)
TreeFiles ==
  UNION { { LET order == Filter(IdOrder, LAMBDA id : id \in S)
            IN  [i \in 1..Len(order) |->
                   FileNode(order[i], types[order[i]], <<>>,
                            IF parents[order[i]] = <<"none">> THEN NoPosition
                            ELSE SpacedTree(order[i], parents[order[i]]))]
            : types \in [S -> Types],
              parents \in [S -> {<<"none">>, None} \cup {Some(p) : p \in Ids}] }
          : S \in {T \in SUBSET Ids : Cardinality(T) >= 2} }

(* Files in which an id repeats, with and without dependencies.             *)
DuplicateFiles ==
  { [i \in 1..Len(idSeq) |-> FileNode(idSeq[i], "tree", deps, SpacedTree(idSeq[i], None))]
    : idSeq \in {q \in [1..2 -> Ids] \cup [1..3 -> Ids] :
                   \E i, j \in 1..Len(q) : i < j /\ q[i] = q[j]},
      deps \in {<<>>, <<"a", "b">>} }

(* Combined files: two nodes, the second with the id of the first or not;   *)
(* every type; no dependency, the other id or an id the file lacks; no      *)
(* tree position, a root, the other id as parent or an id the file lacks.   *)
CombinedFiles ==
  { [i \in 1..2 |->
       FileNode(idSeq[i], types[i], deps[i],
                IF parents[i] = <<"none">> THEN NoPosition
                ELSE TreeAt(10 * i, 0, parents[i]))]
    : idSeq \in {<<"a", "b">>, <<"a", "a">>},
      types \in [1..2 -> Types],
      deps \in [1..2 -> {<<>>, <<"a">>, <<"b">>, <<"c">>}],
      parents \in [1..2 -> {<<"none">>, None, Some("a"), Some("b"), Some("c")}] }

(* A spiral position: theta in quarter turns.                               *)
SpiralPolar(theta, radius, order) ==
  [theta |-> theta, radius |-> radius, order |-> order]

(* The layouts of a node: a tree node at each of five points, a spiral      *)
(* node at each of three polar positions, a hybrid node with both.          *)
Layouts ==
  {[type |-> "tree", ui_position |-> TreeAt(pt[1], pt[2], None)] :
     pt \in {<<0, 0>>, <<5, 0>>, <<8, 0>>, <<10, 0>>, <<5, 6>>}}
  \cup {[type |-> "spiral",
         ui_position |-> [spiral |-> Some(SpiralPolar(sp[1], sp[2], 1)), tree |-> None]] :
          sp \in {<<0, 0>>, <<0, 10>>, <<1, 10>>}}
  \cup {[type |-> "hybrid",
         ui_position |-> [spiral |-> Some(SpiralPolar(0, 10, 1)),
                          tree |-> Some([x |-> 0, y |-> 0, parent_id |-> None])]]}

(* Layout files: unique ids in key order, every layout for every node, the  *)
(* last node without dependencies or depending on itself.                   *)
LayoutFiles ==
  UNION { { LET order == Filter(IdOrder, LAMBDA id : id \in S)
            IN  [i \in 1..Len(order) |->
                   FileNode(order[i], layout[order[i]].type,
                            IF i = Len(order) THEN lastDeps[order[i]] ELSE <<>>,
                            layout[order[i]].ui_position)]
            : layout \in [S -> Layouts],
              lastDeps \in {[id \in S |-> <<>>], [id \in S |-> <<id>>]} }
          : S \in {T \in SUBSET Ids : Cardinality(T) >= 2} }

ValidatorFiles ==
  DependencyFiles \cup TreeFiles \cup DuplicateFiles \cup CombinedFiles \cup LayoutFiles

InitValidator ==
  /\ nodes \in ValidatorFiles
  /\ pc = "ids"
  /\ exitCode = None
  /\ message = None
  /\ warnings = <<>>
  /\ rows = EmptyMap
  /\ settings = None
  /\ prefer = TRUE
  /\ firstPass = EmptyMap
  /\ statusMap = EmptyMap
  /\ nextNodeId = None
  /\ returned = FALSE
  /\ thrown = None
  /\ MapIdle

SpecValidator == InitValidator /\ [][NextValidator]_vars

----------------------------------------------------------------------------
(* Properties of the status engine, checked under Spec.                     *)

(* The completion set of the store: the ids whose row has a completedAt.    *)
CompletionSet == {id \in DOMAIN rows : rows[id].completedAt # None}

(* The dependencies of n that are not completed, in their listed order.     *)
UnmetOf(n) == SelectSeq(n.dependencies, LAMBDA d : d \notin CompletionSet)

WithStatus(sm, status) == {id \in DOMAIN sm : sm[id].status = status}

(* C1: after the first pass of computeNodeStatuses every node is            *)
(* "completed" if its id is in the completion set, otherwise "locked" with  *)
(* unmetDependencies the non-empty list of its dependencies outside the     *)
(* completion set, otherwise "available"; a node that is not completed and  *)
(* has no dependencies is never locked.                                     *)
C1_FirstPassStatus ==
  returned =>
    /\ DOMAIN firstPass = NodeIdsOf(nodes)
    /\ \A i \in 1..Len(nodes) :
         LET n == nodes[i]
             e == firstPass[n.id]
         IN  /\ e.nodeId = n.id
             /\ IF n.id \in CompletionSet
                THEN e.status = "completed"
                ELSE IF UnmetOf(n) # <<>>
                THEN /\ e.status = "locked"
                     /\ "unmetDependencies" \in DOMAIN e
                     /\ e.unmetDependencies = UnmetOf(n)
                ELSE e.status = "available"
             /\ (n.id \notin CompletionSet /\ n.dependencies = <<>>)
                  => e.status # "locked"

(* C1's case: one call left a completed node, an available node and a node  *)
(* locked by one of its two dependencies, the other being completed.        *)
C1_Witness ==
  /\ returned
  /\ WithStatus(firstPass, "completed") # {}
  /\ WithStatus(firstPass, "available") # {}
  /\ \E i \in 1..Len(nodes) :
       /\ firstPass[nodes[i].id].status = "locked"
       /\ Len(nodes[i].dependencies) = 2
       /\ Len(firstPass[nodes[i].id].unmetDependencies) = 1

(* C2: single next: the map computeNodeStatuses returns has exactly one     *)
(* "next" node when the first pass left at least one node "available", and  *)
(* none when it left none.                                                  *)
C2_SingleNext ==
  returned =>
    IF WithStatus(firstPass, "available") # {}
    THEN Cardinality(WithStatus(statusMap, "next")) = 1
    ELSE WithStatus(statusMap, "next") = {}

(* C2's case: the first pass left several nodes available and the returned  *)
(* map has one of them as "next" and another still "available".             *)
C2_Witness ==
  /\ returned
  /\ Cardinality(WithStatus(firstPass, "available")) >= 2
  /\ Cardinality(WithStatus(statusMap, "next")) = 1
  /\ WithStatus(statusMap, "available") # {}

Ready == {"available", "next"}

(* C3: status monotonicity: when computeNodeStatuses has returned a map,    *)
(* markNodeCompleted(n, true) runs and the statuses are recomputed (same    *)
(* option, either engine), no other node goes from "available" or "next"    *)
(* to "locked": every other node that was ready stays ready, a completed    *)
(* one stays completed, a locked one stays locked or becomes ready.         *)
C3_StatusMonotone ==
  [][\A n \in DOMAIN rows :
       ( /\ returned
         /\ rows' = [rows EXCEPT ![n] = [@ EXCEPT !.completedAt = Some(nowIso)]]
         /\ settings' = settings ) =>
         \A impl \in SortImpls :
           \A after \in {computeNodeStatuses(nodes', getCompletedNodeIds(rows'),
                                             settings', Some(prefer), impl)} :
               \A m \in NodeIdsOf(nodes) \ {n} :
                 /\ statusMap[m].status \in Ready => after[m].status \in Ready
                 /\ statusMap[m].status = "completed" => after[m].status = "completed"
                 /\ statusMap[m].status = "locked"
                      => after[m].status \in Ready \cup {"locked"}]_vars

(* C3's case: a node was marked completed and the recomputation reports a   *)
(* node that depends on it as ready, beside another node still locked.      *)
C3_Witness ==
  /\ returned
  /\ \E i, j \in 1..Len(nodes) :
       /\ nodes[i].id \in CompletionSet
       /\ nodes[i].id \in Range(nodes[j].dependencies)
       /\ statusMap[nodes[j].id].status \in Ready
  /\ WithStatus(statusMap, "locked") # {}

(* ---- The store under a running clock ---- *)

MaxClock == 2

(* What nowIso() can return after the seeding, which ran at time 0.         *)
Times == 1..MaxClock

(* Catalogs of the store with three nodes: a without dependencies, b with   *)
(* none or a, c with b or with a and b.                                     *)
ClockCatalogs ==
  {c \in StoreCatalogs :
     /\ Len(c) = 3
     /\ c[1].dependencies = <<>>
     /\ c[2].dependencies \in {<<>>, <<"a">>}
     /\ c[3].dependencies \in {<<"b">>, <<"a", "b">>}}

InitClock ==
  /\ nodes \in ClockCatalogs
  /\ rows = SeededRowsAt(nodes, 0)
  /\ settings = SeededSettings(nodes)
  /\ prefer = TRUE
  /\ firstPass = EmptyMap
  /\ statusMap = EmptyMap
  /\ nextNodeId = None
  /\ returned = FALSE
  /\ thrown = None
  /\ ValidatorIdle
  /\ MapIdle

(* The two clock reads of one call: the second is not before the first.     *)
NextClock ==
  \/ \E id \in Ids, completed \in BOOLEAN, completedAt \in Times, updatedAt \in Times :
       /\ completedAt <= updatedAt
       /\ MarkNodeCompletedAt(id, completed, completedAt, updatedAt)
  \/ \E opts \in {None, Some(TRUE), Some(FALSE)}, impl \in SortImpls :
       ComputeNodeStatuses(opts, impl)

SpecClock == InitClock /\ [][NextClock]_vars

UniqueIds(ns) == Cardinality(NodeIdsOf(ns)) = Len(ns)

(* b is a dependency of a node with id a, and the file has a node b.        *)
DependencyEdge(ns, a, b) ==
  /\ b \in NodeIdsOf(ns)
  /\ \E i \in 1..Len(ns) : ns[i].id = a /\ b \in Range(ns[i].dependencies)

(* a has a tree position whose parent_id is b.                              *)
ParentEdge(ns, a, b) ==
  \E i \in 1..Len(ns) :
    /\ ns[i].id = a
    /\ IsSome(ns[i].ui_position.tree)
    /\ Get(ns[i].ui_position.tree).parent_id = Some(b)

(* The walks of one edge or more over Ids: a walk that exists has one of    *)
(* at most Cardinality(Ids) edges between any two of its ids.               *)
Walks == UNION {[1..k -> Ids] : k \in 2..(Cardinality(Ids) + 1)}

Reaches(Edge(_, _), x, y) ==
  \E w \in Walks :
    /\ w[1] = x
    /\ w[Len(w)] = y
    /\ \A i \in 1..(Len(w) - 1) : Edge(w[i], w[i + 1])

(* Some node reaches itself.                                                *)
HasCycle(Edge(_, _)) == \E x \in Ids : Reaches(Edge, x, x)

(* Two different nodes reach each other: a cycle of length two or more.     *)
HasLongCycle(Edge(_, _)) ==
  \E x, y \in Ids : x # y /\ Reaches(Edge, x, y) /\ Reaches(Edge, y, x)

(* The pairs <<node, d>> with d a dependency of node that the file lacks.   *)
Dangling(ns) ==
  {p \in NodeIdsOf(ns) \X (UNION {Range(ns[i].dependencies) : i \in 1..Len(ns)}) :
     /\ p[2] \notin NodeIdsOf(ns)
     /\ \E i \in 1..Len(ns) : ns[i].id = p[1] /\ p[2] \in Range(ns[i].dependencies)}

(* The path starts and ends at the same id, its consecutive pairs are       *)
(* dependency edges, and no other id repeats on it.                         *)
ValidCyclePath(ns, c) ==
  /\ Len(c) >= 2
  /\ c[1] = c[Len(c)]
  /\ \A i \in 1..(Len(c) - 1) : DependencyEdge(ns, c[i], c[i + 1])
  /\ \A i, j \in 1..(Len(c) - 1) : c[i] = c[j] => i = j

FailedWith(kind) ==
  /\ exitCode = Some(1)
  /\ IsSome(message)
  /\ Get(message).kind = kind

CycleError == FailedWith("cycle") /\ ValidCyclePath(nodes, Get(message).cycle)

MissingDependencyError ==
  /\ FailedWith("missing_dependency")
  /\ <<Get(message).node, Get(message).missing>> \in Dangling(nodes)

LongCycleFile ==
  /\ pc = "exit"
  /\ UniqueIds(nodes)
  /\ HasLongCycle(LAMBDA a, b : DependencyEdge(nodes, a, b))

(* C4 as stated: a file with unique ids and a dependency cycle of length    *)
(* two or more always ends in the cycle error with a valid path.            *)
C4_AlwaysCycleError == LongCycleFile => CycleError

(* C4: a file with unique ids and a dependency cycle of length two or more  *)
(* fails validation: with the cycle error, whose path starts and ends at    *)
(* the same id along dependency edges, or, when the search meets a          *)
(* dependency on a missing id first, with the missing-dependency error;     *)
(* when no dependency is missing it is always the cycle error.              *)
C4_CycleFails ==
  LongCycleFile =>
    /\ CycleError \/ MissingDependencyError
    /\ Dangling(nodes) = {} => CycleError

(* C4's case: a file whose three nodes form one cycle failed with the       *)
(* cycle error, the path running through all three.                         *)
C4_Witness ==
  /\ LongCycleFile
  /\ Dangling(nodes) = {}
  /\ CycleError
  /\ Len(Get(message).cycle) = 4

DanglingFile == pc = "exit" /\ Dangling(nodes) # {}

(* C5 as stated: a file with a dependency on a missing id always ends in    *)
(* the error that names the depending node and the missing id.              *)
C5_AlwaysMissingDependencyError == DanglingFile => MissingDependencyError

(* C5: a file with a dependency on a missing id fails validation: with the  *)
(* error naming a depending node and its missing id, unless a duplicate id  *)
(* or a dependency cycle is found first; with unique ids and no dependency  *)
(* cycle it is always the missing-dependency error.                         *)
C5_DanglingFails ==
  DanglingFile =>
    /\ \/ MissingDependencyError
       \/ FailedWith("duplicate_id") /\ ~UniqueIds(nodes)
       \/ CycleError
    /\ ( UniqueIds(nodes) /\ ~HasCycle(LAMBDA a, b : DependencyEdge(nodes, a, b)) )
         => MissingDependencyError

(* C5's case: an acyclic file with unique ids failed on a missing           *)
(* dependency of a node the search entered through another node.            *)
C5_Witness ==
  /\ DanglingFile
  /\ UniqueIds(nodes)
  /\ ~HasCycle(LAMBDA a, b : DependencyEdge(nodes, a, b))
  /\ MissingDependencyError
  /\ Get(message).node # nodes[1].id
  /\ DependencyEdge(nodes, nodes[1].id, Get(message).node)

(* C6: a file that passes validation (exit code 0) has an acyclic tree      *)
(* parent graph: no node is its own tree ancestor.                          *)
C6_TreeParentsAcyclic ==
  (pc = "exit" /\ exitCode = Some(0))
    => ~HasCycle(LAMBDA a, b : ParentEdge(nodes, a, b))

(* ---- The selector's claims ---- *)

(* The positions in the catalog of the nodes the status map has as          *)
(* "available".                                                             *)
AvailableAt ==
  {i \in 1..Len(nodes) :
     nodes[i].id \in DOMAIN statusMap /\ statusMap[nodes[i].id].status = "available"}

(* Those of type "spiral" that carry a spiral position.                     *)
CandidatesAt ==
  {i \in AvailableAt :
     nodes[i].type = "spiral" /\ IsSome(nodes[i].ui_position.spiral)}

OrderAt(i) == Get(nodes[i].ui_position.spiral).order

CurrentOrder ==
  IF IsSome(settings) THEN Get(settings).currentSpiralOrder ELSE None

(* The candidates at or after the current spiral order.                     *)
ContinuingAt ==
  IF IsSome(CurrentOrder)
  THEN {i \in CandidatesAt : OrderAt(i) >= Get(CurrentOrder)}
  ELSE {}

(* The call returned the id of a node of least order among those at S.      *)
ReturnedLeastOrder(S) ==
  /\ IsSome(nextNodeId)
  /\ \E i \in S :
       /\ nodes[i].id = Get(nextNodeId)
       /\ \A j \in S : OrderAt(i) <= OrderAt(j)

(* The spiral nodes at orders 1, 2, 3, the first completed and the other    *)
(* two available.                                                           *)
SpiralTrack123 ==
  /\ \A i \in 1..3 : nodes[i].type = "spiral" /\ nodes[i].ui_position = SpiralAt(i)
  /\ AvailableAt = {2, 3}

(* C7: spiral continuation: with the spiral preference on and a candidate   *)
(* (an available node of type "spiral" with a spiral position), the call    *)
(* returns the candidate of least order at or above currentSpiralOrder      *)
(* when that is set and there is one, and the candidate of least order      *)
(* otherwise; with orders 1, 2, 3, node 1 completed and 2, 3 available,     *)
(* node 2 is returned for currentSpiralOrder 1 and for 2.                   *)
C7_SpiralContinuation ==
  (returned /\ prefer /\ CandidatesAt # {}) =>
    /\ IF ContinuingAt # {}
       THEN ReturnedLeastOrder(ContinuingAt)
       ELSE ReturnedLeastOrder(CandidatesAt)
    /\ (SpiralTrack123 /\ CurrentOrder \in {Some(1), Some(2)})
         => nextNodeId = Some(nodes[2].id)

(* C7's case: orders 1, 2, 3, node 1 completed, currentSpiralOrder 1, and   *)
(* the call returned node 2.                                                *)
C7_Witness ==
  /\ returned
  /\ prefer
  /\ SpiralTrack123
  /\ CurrentOrder = Some(1)
  /\ nextNodeId = Some(nodes[2].id)

(* The tag fallback is reached: some node is available and the spiral rule  *)
(* is off or has no candidate.                                              *)
FallbackReached ==
  /\ returned
  /\ AvailableAt # {}
  /\ ~prefer \/ CandidatesAt = {}

CurrentId ==
  IF IsSome(settings) THEN Get(settings).currentNodeId ELSE None

CurrentNamesNode == IsSome(CurrentId) /\ Get(CurrentId) \in NodeIdsOf(nodes)

CurrentTags ==
  Range((CHOOSE n \in Range(nodes) : n.id = Get(CurrentId)).tags)

(* The number of tags the node at i shares with the current node.           *)
SharedAt(i) == Cardinality(Range(nodes[i].tags) \cap CurrentTags)

(* C8: tag fallback: when the fallback is reached and currentNodeId names   *)
(* a catalog node, the call returns an available node that shares as many   *)
(* tags with the current node as any available node does.                   *)
C8_TagFallbackMaxOverlap ==
  (FallbackReached /\ CurrentNamesNode) =>
    /\ IsSome(nextNodeId)
    /\ \E i \in AvailableAt :
         /\ nodes[i].id = Get(nextNodeId)
         /\ \A j \in AvailableAt : SharedAt(j) <= SharedAt(i)

(* C8's case: spiral preference off, two tags on the current node, an       *)
(* available node of overlap 0 ahead of one of overlap 2 in the catalog,    *)
(* and the call returned the latter.                                        *)
C8_Witness ==
  /\ FallbackReached
  /\ ~prefer
  /\ CurrentNamesNode
  /\ Cardinality(CurrentTags) = 2
  /\ \E i, j \in AvailableAt :
       /\ i < j
       /\ AvailableAt = {i, j}
       /\ SharedAt(i) = 0
       /\ SharedAt(j) = 2
       /\ nextNodeId = Some(nodes[j].id)

(* The node at i is ranked before the node at j: more overlap, then type    *)
(* "spiral" before the others, then catalog order.                          *)
RankedBefore(i, j) ==
  \/ SharedAt(i) > SharedAt(j)
  \/ /\ SharedAt(i) = SharedAt(j)
     /\ nodes[i].type = "spiral"
     /\ nodes[j].type # "spiral"
  \/ /\ SharedAt(i) = SharedAt(j)
     /\ (nodes[i].type = "spiral") = (nodes[j].type = "spiral")
     /\ i < j

(* C9: tag fallback tie-break: when the fallback is reached and             *)
(* currentNodeId names a catalog node, the call returns the available node  *)
(* that is first by overlap, then type "spiral", then catalog order.        *)
C9_TieBreak ==
  (FallbackReached /\ CurrentNamesNode) =>
    /\ IsSome(nextNodeId)
    /\ \E i \in AvailableAt :
         /\ nodes[i].id = Get(nextNodeId)
         /\ \A j \in AvailableAt \ {i} : RankedBefore(i, j)

(* C10: when the fallback is reached and currentNodeId is unset or names    *)
(* no catalog node, the call returns the first available node in catalog    *)
(* order.                                                                   *)
C10_FirstAvailable ==
  (FallbackReached /\ ~CurrentNamesNode) =>
    /\ IsSome(nextNodeId)
    /\ \E i \in AvailableAt :
         /\ nodes[i].id = Get(nextNodeId)
         /\ \A j \in AvailableAt : i <= j

(* C10's case: currentNodeId names no catalog node, the first node of the   *)
(* catalog is not available, and the call returned the first of the two     *)
(* available nodes although the second has type "spiral".                   *)
C10_Witness ==
  /\ FallbackReached
  /\ IsSome(CurrentId)
  /\ ~CurrentNamesNode
  /\ AvailableAt = {2, 3}
  /\ nodes[2].type # "spiral"
  /\ nodes[3].type = "spiral"
  /\ nextNodeId = Some(nodes[2].id)

(* C11: computeRecommendedNextNodeId returns null exactly when no node is   *)
(* "available" in the status map, and otherwise the id of an available      *)
(* node, whatever the settings and the preference.                          *)
C11_NullIffNoneAvailable ==
  returned =>
    /\ nextNodeId = None <=> AvailableAt = {}
    /\ IsSome(nextNodeId) => \E i \in AvailableAt : nodes[i].id = Get(nextNodeId)

(* C11's case: the first node of the catalog is the current node and is     *)
(* not available, and the call returned one of the two available nodes.     *)
C11_Witness ==
  /\ returned
  /\ CurrentId = Some(nodes[1].id)
  /\ AvailableAt = {2, 3}
  /\ IsSome(nextNodeId)
  /\ Get(nextNodeId) \in {nodes[2].id, nodes[3].id}

(* C13: when a dependency of some node is an id absent from the catalog,    *)
(* computeNodeStatuses raises instead of returning a status map, and the    *)
(* depending node is never reported "available" or "next".                  *)
C13_MissingDependencyRaises ==
  Dangling(nodes) # {} =>
    /\ ~returned
    /\ \A p \in Dangling(nodes) :
         p[1] \in DOMAIN statusMap => statusMap[p[1]].status \notin Ready

(* The ids that occur more than once in the file.                           *)
RepeatedIds(ns) ==
  {ns[i].id : i \in {k \in 1..Len(ns) : \E j \in 1..Len(ns) : j # k /\ ns[j].id = ns[k].id}}

(* C14: a file in which an id appears more than once fails with the         *)
(* duplicate-id error, whatever else is wrong with it: the dependency and   *)
(* tree parent checks only run on files with unique ids.                    *)
C14_DuplicateIdFirst ==
  /\ (pc = "exit" /\ ~UniqueIds(nodes)) =>
       /\ FailedWith("duplicate_id")
       /\ Get(message).node \in RepeatedIds(nodes)
  /\ pc \in {"cycles", "parents", "spacing"} => UniqueIds(nodes)

(* The positions of the nodes whose tree position names a parent.           *)
ParentedAt(ns) ==
  {i \in 1..Len(ns) :
     /\ IsSome(ns[i].ui_position.tree)
     /\ IsSome(Get(ns[i].ui_position.tree).parent_id)}

ParentOf(ns, i) == Get(Get(ns[i].ui_position.tree).parent_id)

(* Those whose parent_id is not an id of the file.                          *)
DanglingParentAt(ns) ==
  {i \in ParentedAt(ns) : ParentOf(ns, i) \notin NodeIdsOf(ns)}

(* Those whose parent is a node of a type other than tree and hybrid.       *)
IllegalParentAt(ns) ==
  {i \in ParentedAt(ns) :
     \E j \in 1..Len(ns) :
       ns[j].id = ParentOf(ns, i) /\ ns[j].type \notin {"tree", "hybrid"}}

(* C14's case: the second node repeats the id of the first, depends on an   *)
(* id the file lacks and names a parent the file lacks, and the run ended   *)
(* with the duplicate-id error.                                             *)
C14_Witness ==
  /\ pc = "exit"
  /\ FailedWith("duplicate_id")
  /\ nodes[2].id = nodes[1].id
  /\ Dangling(nodes) # {}
  /\ 2 \in DanglingParentAt(nodes)

(* Unique ids, no dependency on a missing id, no dependency cycle.          *)
DependencySound(ns) ==
  /\ UniqueIds(ns)
  /\ Dangling(ns) = {}
  /\ ~HasCycle(LAMBDA a, b : DependencyEdge(ns, a, b))

(* The first position, in file order, of a node with a bad tree parent.     *)
FirstParentProblemAt(ns) ==
  CHOOSE i \in DanglingParentAt(ns) \cup IllegalParentAt(ns) :
    \A j \in DanglingParentAt(ns) \cup IllegalParentAt(ns) : i <= j

MissingParentError(i) ==
  /\ FailedWith("missing_parent")
  /\ Get(message).node = nodes[i].id
  /\ Get(message).parent = ParentOf(nodes, i)

ParentTypeError(i) ==
  /\ FailedWith("parent_type")
  /\ Get(message).node = nodes[i].id
  /\ Get(message).parent = ParentOf(nodes, i)
  /\ Get(message).type \notin {"tree", "hybrid"}

(* The run failed in a check that precedes the tree parent checks.          *)
EarlierError ==
  /\ exitCode = Some(1)
  /\ IsSome(message)
  /\ Get(message).kind \in {"duplicate_id", "cycle", "missing_dependency"}

(* The error main raises for a file with a bad tree parent: that of an      *)
(* earlier check when ids or dependencies are unsound, and otherwise the    *)
(* parent error of the first node, in file order, with a bad parent.        *)
FirstParentError ==
  IF ~DependencySound(nodes) THEN EarlierError
  ELSE LET i == FirstParentProblemAt(nodes)
       IN  IF i \in DanglingParentAt(nodes) THEN MissingParentError(i)
           ELSE ParentTypeError(i)

(* C15 as stated: a file with a node whose parent_id is not an id of the    *)
(* file always fails with the error naming such a node and its parent_id.   *)
C15_AlwaysMissingParentError ==
  (pc = "exit" /\ DanglingParentAt(nodes) # {}) =>
    \E i \in DanglingParentAt(nodes) : MissingParentError(i)

(* C15: a file with a node whose parent_id is not an id of the file fails   *)
(* validation; with unique ids and sound dependencies the error is the      *)
(* parent error of the first node with a bad parent, which names a node     *)
(* and its missing parent_id unless that first node has a parent of an      *)
(* illegal type; otherwise it is the error of the earlier check.            *)
C15_DanglingParentFails ==
  (pc = "exit" /\ DanglingParentAt(nodes) # {}) =>
    /\ FirstParentError
    /\ ( DependencySound(nodes) /\ IllegalParentAt(nodes) = {} )
         => MissingParentError(FirstParentProblemAt(nodes))

(* C15's case: the first node has a legal parent, the second names a        *)
(* parent the file lacks, and the run ended with the error naming the       *)
(* second node.                                                             *)
C15_Witness ==
  /\ pc = "exit"
  /\ DependencySound(nodes)
  /\ 1 \in ParentedAt(nodes) \ (DanglingParentAt(nodes) \cup IllegalParentAt(nodes))
  /\ 2 \in DanglingParentAt(nodes)
  /\ MissingParentError(2)

(* C16 as stated: a file with a node whose parent has a type other than     *)
(* tree and hybrid always fails with the parent type error for such a node. *)
C16_AlwaysParentTypeError ==
  (pc = "exit" /\ IllegalParentAt(nodes) # {}) =>
    \E i \in IllegalParentAt(nodes) : ParentTypeError(i)

(* C16: a file with a node whose parent has a type other than tree and      *)
(* hybrid fails validation; with unique ids and sound dependencies the      *)
(* error is the parent error of the first node with a bad parent, which is  *)
(* the parent type error unless that first node names a missing parent;     *)
(* otherwise it is the error of the earlier check.  The parent type error   *)
(* is only ever raised for a parent that is neither tree nor hybrid.        *)
C16_IllegalParentFails ==
  /\ (pc = "exit" /\ IllegalParentAt(nodes) # {}) =>
       /\ FirstParentError
       /\ ( DependencySound(nodes) /\ DanglingParentAt(nodes) = {} )
            => ParentTypeError(FirstParentProblemAt(nodes))
  /\ FailedWith("parent_type") =>
       \E i \in IllegalParentAt(nodes) : ParentTypeError(i)

(* C16's case: the first node has a parent of type hybrid, the second a     *)
(* parent of type spiral, and the run ended with the parent type error      *)
(* for the second node.                                                     *)
C16_Witness ==
  /\ pc = "exit"
  /\ DependencySound(nodes)
  /\ 1 \in ParentedAt(nodes)
  /\ \E j \in 1..Len(nodes) :
       nodes[j].id = ParentOf(nodes, 1) /\ nodes[j].type = "hybrid"
  /\ ParentTypeError(2)
  /\ Get(message).type = "spiral"

(* The file has one of the five structural errors.                          *)
StructuralError(ns) ==
  \/ ~UniqueIds(ns)
  \/ Dangling(ns) # {}
  \/ HasCycle(LAMBDA a, b : DependencyEdge(ns, a, b))
  \/ DanglingParentAt(ns) # {}
  \/ IllegalParentAt(ns) # {}

WarningKinds == {warnings[k].kind : k \in 1..Len(warnings)}

(* C17: the validator ends with exit code 0 exactly when the file has none  *)
(* of the five structural errors, and with exit code 1 otherwise; an exit   *)
(* with code 1 is at the first error, before any spacing warning, and       *)
(* spacing warnings never change the exit code 0.                           *)
C17_ExitCode ==
  pc = "exit" =>
    /\ exitCode = Some(IF StructuralError(nodes) THEN 1 ELSE 0)
    /\ exitCode = Some(1) => IsSome(message) /\ warnings = <<>>
    /\ exitCode = Some(0) => message = None

(* C17's case: a file without structural error drew a tree warning and a    *)
(* spiral warning and the run ended with exit code 0.                       *)
C17_Witness ==
  /\ pc = "exit"
  /\ exitCode = Some(0)
  /\ WarningKinds = {"tree", "spiral"}

(* The positions of the nodes with a tree position.                         *)
TreePositionedAt == {i \in 1..Len(nodes) : IsSome(nodes[i].ui_position.tree)}

TreePoint(i) == Get(nodes[i].ui_position.tree)

(* The squared Euclidean distance of the tree points of two nodes.          *)
SquaredDistance(i, j) ==
  (TreePoint(i).x - TreePoint(j).x) * (TreePoint(i).x - TreePoint(j).x)
  + (TreePoint(i).y - TreePoint(j).y) * (TreePoint(i).y - TreePoint(j).y)

(* The tree warnings about the nodes at i and j.                            *)
TreeWarningsAbout(i, j) ==
  {k \in 1..Len(warnings) :
     /\ warnings[k].kind = "tree"
     /\ {warnings[k].a, warnings[k].b} = {nodes[i].id, nodes[j].id}}

(* C18: for a file that passes validation, every pair of distinct nodes     *)
(* with a tree position draws exactly one tree warning when the squared     *)
(* distance of the two points is below 64 and none otherwise, and there is  *)
(* no other tree warning: (0,0) and (5,0) draw one, (0,0) and (10,0) none,  *)
(* and two points at distance exactly 8 none.                               *)
C18_TreeSpacing ==
  (pc = "exit" /\ exitCode = Some(0)) =>
    /\ \A i, j \in TreePositionedAt :
         i < j => Cardinality(TreeWarningsAbout(i, j))
                    = (IF SquaredDistance(i, j) < 64 THEN 1 ELSE 0)
    /\ \A k \in 1..Len(warnings) :
         warnings[k].kind = "tree" =>
           \E i, j \in TreePositionedAt : i < j /\ k \in TreeWarningsAbout(i, j)

(* C18's case: tree nodes at (0,0), (5,0) and (8,0): the first and the      *)
(* second draw a warning, the first and the third, at distance 8, none.     *)
C18_Witness ==
  /\ pc = "exit"
  /\ exitCode = Some(0)
  /\ TreePositionedAt = {1, 2, 3}
  /\ <<TreePoint(1).x, TreePoint(1).y>> = <<0, 0>>
  /\ <<TreePoint(2).x, TreePoint(2).y>> = <<5, 0>>
  /\ <<TreePoint(3).x, TreePoint(3).y>> = <<8, 0>>
  /\ Cardinality(TreeWarningsAbout(1, 2)) = 1
  /\ TreeWarningsAbout(1, 3) = {}

(* The node of the catalog with the id.                                     *)
NodeWithId(id) == CHOOSE n \in Range(nodes) : n.id = id

(* C19: promotion only applies to an available node: in every map           *)
(* computeNodeStatuses returns, a "next" node was "available" after the     *)
(* first pass, is not in the completion set and has all its dependencies    *)
(* in it; the entries the first pass left "completed" or "locked" are       *)
(* returned as they were; and the promotion of an entry that is not         *)
(* "available" changes nothing, so that no node is marked "next".           *)
C19_PromotionOnlyAvailable ==
  returned =>
    /\ \A id \in WithStatus(statusMap, "next") :
         /\ firstPass[id].status = "available"
         /\ id \notin CompletionSet
         /\ Range(NodeWithId(id).dependencies) \subseteq CompletionSet
    /\ \A id \in DOMAIN firstPass :
         firstPass[id].status \in {"completed", "locked"}
           => /\ statusMap[id] = firstPass[id]
              /\ Promote(firstPass, Some(id)) = firstPass
    /\ Promote(firstPass, None) = firstPass

(* C19's case: the returned map has a "next" node that has a dependency,    *)
(* beside a completed node and a locked node.                               *)
C19_Witness ==
  /\ returned
  /\ \E id \in WithStatus(statusMap, "next") : NodeWithId(id).dependencies # <<>>
  /\ WithStatus(statusMap, "completed") # {}
  /\ WithStatus(statusMap, "locked") # {}

(* C20: in every state of the store, for every id with a row and whatever   *)
(* the clock reads, markNodeCompleted(id, true) leaves getCompletedNodeIds  *)
(* with id added and markNodeCompleted(id, false) with id removed, every    *)
(* other id as it was; for an id that is not completed, marking and         *)
(* unmarking later gives back the completion set, and computeNodeStatuses   *)
(* on the rows so restored returns what it returns on the rows before.      *)
C20_MarkTogglesMembership ==
  \A id \in DOMAIN rows :
    /\ \A first \in Times :
         /\ getCompletedNodeIds(markNodeCompleted(rows, id, TRUE, first, first).rows)
              = CompletionSet \cup {id}
         /\ getCompletedNodeIds(markNodeCompleted(rows, id, FALSE, first, first).rows)
              = CompletionSet \ {id}
         /\ id \notin CompletionSet =>
              \A second \in first..MaxClock :
                getCompletedNodeIds(
                  markNodeCompleted(markNodeCompleted(rows, id, TRUE, first, first).rows,
                                    id, FALSE, second, second).rows) = CompletionSet
    /\ id \notin CompletionSet =>
         \A restored \in {markNodeCompleted(markNodeCompleted(rows, id, TRUE, 1, 1).rows,
                                            id, FALSE, MaxClock, MaxClock).rows} :
           \A impl \in SortImpls :
             computeNodeStatuses(nodes, getCompletedNodeIds(restored),
                                 settings, Some(prefer), impl)
             = computeNodeStatuses(nodes, getCompletedNodeIds(rows),
                                   settings, Some(prefer), impl)

(* C20's case: one node was marked completed and is completed, another was  *)
(* marked completed and unmarked later and is not, a third was never        *)
(* touched.                                                                 *)
C20_Witness ==
  \E i, j, k \in DOMAIN rows :
    /\ i \in CompletionSet
    /\ j \notin CompletionSet
    /\ rows[j].updatedAt > 1
    /\ rows[k].updatedAt = 0
    /\ thrown = None
    /\ ~returned

----------------------------------------------------------------------------
(* The journey map (components/JourneyMapCanvas.tsx; the later version in   *)
(* unnamed/part_004 refuses to toggle a locked node). Its handlers are      *)
(* async functions: every await of a Dexie operation is a point where       *)
(* another handler's continuation can run. IndexedDB orders two             *)
(* transactions on one object store only when one of them writes, so the    *)
(* operations of different handlers take effect in any order that keeps     *)
(* each handler's own order.                                                *)

(* How many handlers are in flight at once.                                 *)
MaxCalls == 2

CallIds == 1..MaxCalls

(* What the store holds at an instant, the catalog apart.                   *)
Snapshot(rs, st) == [completed |-> getCompletedNodeIds(rs), settings |-> st]

(* A handler in flight: the await it is at, the id and flag it was started  *)
(* with, what the get of its mutation returned, what the reads of its       *)
(* computeNodeStatuses returned and the map that call resolved to; during   *)
(* is history, kept where a claim needs it: the store contents there have   *)
(* been since that call was made.                                           *)
Call(handler, at, nodeId, completed) ==
  [handler |-> handler, pc |-> at, nodeId |-> nodeId, completed |-> completed,
   got |-> None, completedRead |-> {}, result |-> EmptyMap, during |-> {}]

(* refreshData (JourneyMapCanvas.tsx:103-110) is entered and calls          *)
(* computeNodeStatuses.                                                     *)
Refreshing(call) == [call EXCEPT !.pc = "nodes", !.got = None]

Computing(call) == call.pc \in {"nodes", "completed", "settings"}

(* The calls after the store changed to rs, st: every running               *)
(* computeNodeStatuses call has been running while the store held that.     *)
Witnessing(cs, rs, st) ==
  [c \in DOMAIN cs |->
     IF Computing(cs[c]) THEN [cs[c] EXCEPT !.during = @ \cup {Snapshot(rs, st)}]
     ELSE cs[c]]

Without(cs, c) == [d \in DOMAIN cs \ {c} |-> cs[d]]

With(cs, c, call) == [d \in DOMAIN cs \cup {c} |-> IF d = c THEN call ELSE cs[d]]

FreeCall == CHOOSE c \in CallIds \ DOMAIN calls : \A d \in CallIds \ DOMAIN calls : c <= d

StatusShown(id) == IF id \in DOMAIN statusMap THEN Some(statusMap[id].status) ELSE None

(* handleToggleCompleted up to its first await (JourneyMapCanvas.tsx:       *)
(* 281-284; part_004:359-363 with refuseLocked): the selected node is one   *)
(* of the shown nodes.                                                      *)
HandleToggleCompleted(id, refuseLocked) ==
  /\ DOMAIN calls # CallIds
  /\ id \in NodeIdsOf(shownNodes)
  /\ ~(refuseLocked /\ StatusShown(id) = Some("locked"))
  /\ calls' = With(calls, FreeCall,
                   Call("toggle", "get", id, StatusShown(id) # Some("completed")))
  /\ UNCHANGED <<nodes, rows, settings, prefer, firstPass, statusMap, nextNodeId,
                 returned, thrown, shownNodes, validatorVars>>

(* handleSetCurrent up to its first await (JourneyMapCanvas.tsx:288-290)    *)
HandleSetCurrent(id) ==
  /\ DOMAIN calls # CallIds
  /\ id \in NodeIdsOf(shownNodes)
  /\ calls' = With(calls, FreeCall, Call("setCurrent", "get", id, FALSE))
  /\ UNCHANGED <<nodes, rows, settings, prefer, firstPass, statusMap, nextNodeId,
                 returned, thrown, shownNodes, validatorVars>>

(* The get of markNodeCompleted (journey.ts:58-59) or of setCurrentNode     *)
(* (journey.ts:72) resolves; a missing row rejects the handler.             *)
GetResolves(c) ==
  /\ c \in DOMAIN calls
  /\ calls[c].pc = "get"
  /\ IF calls[c].handler = "toggle"
     THEN IF calls[c].nodeId \in DOMAIN rows
          THEN /\ calls' = [calls EXCEPT ![c].pc = "put",
                                         ![c].got = Some(rows[calls[c].nodeId])]
               /\ thrown' = None
          ELSE /\ calls' = Without(calls, c)
               /\ thrown' = Some("Missing UserNodeState")
     ELSE /\ calls' = [calls EXCEPT ![c].pc = "put", ![c].got = settings]
          /\ thrown' = None
  /\ UNCHANGED <<nodes, rows, settings, prefer, firstPass, statusMap, nextNodeId,
                 returned, shownNodes, validatorVars>>

(* The put of markNodeCompleted (journey.ts:60-64), on the row its get      *)
(* returned, resolves; the handler goes on to refreshData.                  *)
PutRowResolves(c) ==
  /\ c \in DOMAIN calls
  /\ calls[c].pc = "put"
  /\ calls[c].handler = "toggle"
  /\ LET call == calls[c]
         held == [id \in DOMAIN rows \cup {call.nodeId} |->
                    IF id = call.nodeId THEN Get(call.got) ELSE rows[id]]
         put == markNodeCompleted(held, call.nodeId, call.completed, nowIso, nowIso).rows
     IN  /\ rows' = put
         /\ calls' = [calls EXCEPT ![c] = Refreshing(call)]
  /\ UNCHANGED <<nodes, settings, prefer, firstPass, statusMap, nextNodeId,
                 returned, thrown, shownNodes, validatorVars>>

(* The put of setCurrentNode (journey.ts:73-82), on the row its get         *)
(* returned, resolves; the handler goes on to refreshData.                  *)
PutSettingsResolves(c) ==
  /\ c \in DOMAIN calls
  /\ calls[c].pc = "put"
  /\ calls[c].handler = "setCurrent"
  /\ LET call == calls[c]
         put == setCurrentNode(call.got, call.nodeId)
     IN  /\ settings' = put
         /\ calls' = [calls EXCEPT ![c] = Refreshing(call)]
  /\ UNCHANGED <<nodes, rows, prefer, firstPass, statusMap, nextNodeId,
                 returned, thrown, shownNodes, validatorVars>>

(* computeNodeStatuses: getAllNodes resolves (journey.ts:95). No handler    *)
(* of the map writes the catalog, so what it returned is nodes.             *)
NodesRead(c) ==
  /\ c \in DOMAIN calls
  /\ calls[c].pc = "nodes"
  /\ calls' = [calls EXCEPT ![c].pc = "completed"]
  /\ UNCHANGED <<nodes, rows, settings, prefer, firstPass, statusMap, nextNodeId,
                 returned, thrown, shownNodes, validatorVars>>

(* computeNodeStatuses: getCompletedNodeIds resolves (journey.ts:96)        *)
CompletedRead(c) ==
  /\ c \in DOMAIN calls
  /\ calls[c].pc = "completed"
  /\ calls' = [calls EXCEPT ![c].pc = "settings",
                            ![c].completedRead = getCompletedNodeIds(rows)]
  /\ UNCHANGED <<nodes, rows, settings, prefer, firstPass, statusMap, nextNodeId,
                 returned, thrown, shownNodes, validatorVars>>

(* computeNodeStatuses: getGlobalSettings resolves (journey.ts:97) and the  *)
(* call runs to its return (journey.ts:99-121) on engine impl.              *)
SettingsRead(c, impl) ==
  /\ c \in DOMAIN calls
  /\ calls[c].pc = "settings"
  /\ calls' = [calls EXCEPT
                 ![c].pc = "set",
                 ![c].completedRead = {},
                 ![c].result = computeNodeStatuses(nodes, calls[c].completedRead,
                                                   settings, None, impl)]
  /\ UNCHANGED <<nodes, rows, settings, prefer, firstPass, statusMap, nextNodeId,
                 returned, thrown, shownNodes, validatorVars>>

(* refreshData after its Promise.all (JourneyMapCanvas.tsx:108-109): the    *)
(* getAllNodes it started beside computeNodeStatuses has resolved too.      *)
SetState(c) ==
  /\ c \in DOMAIN calls
  /\ calls[c].pc = "set"
  /\ shownNodes' = nodes
  /\ statusMap' = calls[c].result
  /\ calls' = Without(calls, c)
  /\ UNCHANGED <<nodes, rows, settings, prefer, firstPass, nextNodeId,
                 returned, thrown, validatorVars>>

(* Catalogs of the map: the two-node catalogs of the store in which the     *)
(* first node has no dependency and the second depends on nothing or on     *)
(* the first.                                                               *)
MapCatalogs ==
  {c \in StoreCatalogs :
     /\ Len(c) = 2
     /\ c[1].dependencies = <<>>
     /\ c[2].dependencies \in {<<>>, <<c[1].id>>}}

(* The map is mounted on a seeded store: its load effect                    *)
(* (JourneyMapCanvas.tsx:112-127) has seeded and is in refreshData.         *)
InitMap ==
  /\ nodes \in MapCatalogs
  /\ rows = SeededRows(nodes)
  /\ settings = SeededSettings(nodes)
  /\ prefer = TRUE
  /\ firstPass = EmptyMap
  /\ statusMap = EmptyMap
  /\ nextNodeId = None
  /\ returned = FALSE
  /\ thrown = None
  /\ ValidatorIdle
  /\ shownNodes = <<>>
  /\ calls = [c \in {1} |-> Refreshing(Call("load", "nodes", "", FALSE))]

Resolves(c) ==
  \/ GetResolves(c)
  \/ PutRowResolves(c)
  \/ PutSettingsResolves(c)
  \/ NodesRead(c)
  \/ CompletedRead(c)
  \/ \E impl \in SortImpls : SettingsRead(c, impl)
  \/ SetState(c)

(* The map of JourneyMapCanvas.tsx                                          *)
NextMap ==
  \/ \E id \in Ids : HandleToggleCompleted(id, FALSE)
  \/ \E id \in Ids : HandleSetCurrent(id)
  \/ \E c \in CallIds : Resolves(c)

SpecMap == InitMap /\ [][NextMap]_vars

(* The map of part_004, whose toggle refuses a locked node.                 *)
NextGuardedMap ==
  \/ \E id \in Ids : HandleToggleCompleted(id, TRUE)
  \/ \E id \in Ids : HandleSetCurrent(id)
  \/ \E c \in CallIds : Resolves(c)

SpecGuardedMap == InitMap /\ [][NextGuardedMap]_vars

----------------------------------------------------------------------------
(* One computeNodeStatuses call at a time, made by refreshData, while       *)
(* markNodeCompleted and setCurrentNode are called from elsewhere (another  *)
(* handler, another page on the same database); each of these takes effect  *)
(* at its put.                                                              *)

(* How many different store contents a running call is followed through,   *)
(* the one it started on apart.                                             *)
MaxWrites == 2

Followed == \A c \in DOMAIN calls : Cardinality(calls[c].during) <= MaxWrites

(* refreshData is entered and calls computeNodeStatuses.                    *)
CallComputeNodeStatuses ==
  /\ calls = EmptyMap
  /\ calls' = [c \in {1} |->
                 [Refreshing(Call("load", "nodes", "", FALSE))
                    EXCEPT !.during = {Snapshot(rows, settings)}]]
  /\ UNCHANGED <<nodes, rows, settings, prefer, firstPass, statusMap, nextNodeId,
                 returned, thrown, shownNodes, validatorVars>>

(* markNodeCompleted(nodeId, completed) while a call may be running.        *)
MarkNodeCompletedDuring(nodeId, completed) ==
  LET call == markNodeCompleted(rows, nodeId, completed, nowIso, nowIso)
  IN  /\ Followed
      /\ rows' = call.rows
      /\ thrown' = call.thrown
      /\ calls' = Witnessing(calls, call.rows, settings)
      /\ UNCHANGED <<nodes, settings, prefer, firstPass, statusMap, nextNodeId,
                     returned, shownNodes, validatorVars>>

(* setCurrentNode(nodeId) while a call may be running.                      *)
SetCurrentNodeDuring(nodeId) ==
  /\ Followed
  /\ settings' = setCurrentNode(settings, nodeId)
  /\ thrown' = None
  /\ calls' = Witnessing(calls, rows, settings')
  /\ UNCHANGED <<nodes, rows, prefer, firstPass, statusMap, nextNodeId,
                 returned, shownNodes, validatorVars>>

InitReads ==
  /\ nodes \in MapCatalogs
  /\ rows = SeededRows(nodes)
  /\ settings = SeededSettings(nodes)
  /\ prefer = TRUE
  /\ firstPass = EmptyMap
  /\ statusMap = EmptyMap
  /\ nextNodeId = None
  /\ returned = FALSE
  /\ thrown = None
  /\ ValidatorIdle
  /\ MapIdle

NextReads ==
  \/ CallComputeNodeStatuses
  \/ NodesRead(1)
  \/ CompletedRead(1)
  \/ \E impl \in SortImpls : SettingsRead(1, impl)
  \/ SetState(1)
  \/ \E id \in NodeIdsOf(nodes), completed \in BOOLEAN :
       MarkNodeCompletedDuring(id, completed)
  \/ \E id \in NodeIdsOf(nodes) : SetCurrentNodeDuring(id)

SpecReads == InitReads /\ [][NextReads]_vars

(* The calls that have resolved to their map: the map, and whether it is    *)
(* what the pure function gives on a store content there was during the     *)
(* call.                                                                    *)
Resolved == {c \in DOMAIN calls : calls[c].pc = "set"}

OfOneInstant(call) ==
  \E snap \in call.during, impl \in SortImpls :
    call.result = computeNodeStatuses(nodes, snap.completed, snap.settings, None, impl)

(* C21: under every interleaving of a running computeNodeStatuses call      *)
(* with markNodeCompleted and setCurrentNode calls, the map the call        *)
(* resolves to is the pure function of the catalog, a completion set and    *)
(* settings that the store held together at one instant during the call.    *)
C21_ReadsOfOneInstant == \A c \in Resolved : OfOneInstant(calls[c])

(* Every handler the map started and every refresh has finished.            *)
Settled == calls = EmptyMap

(* The map shows what computeNodeStatuses gives on the store as it is.      *)
ShowsStored ==
  \E impl \in SortImpls :
    statusMap = computeNodeStatuses(nodes, CompletionSet, settings, None, impl)

(* C22: the map refreshes after every toggle and every set-current, so      *)
(* that once all started handlers and refreshes have finished the shown     *)
(* status map is computeNodeStatuses over the stored completion set and     *)
(* settings, under every interleaving of overlapping handlers.              *)
C22_SettledShowsStored == Settled => ShowsStored

(* An available spiral candidate of the selector (journey.ts:138-139).      *)
SpiralCandidates(sm) ==
  {n \in Range(nodes) :
     IsAvailable(sm, n.id) /\ n.type = "spiral" /\ IsSome(n.ui_position.spiral)}

StoredField(st, field) == IF IsSome(st) THEN Get(st)[field] ELSE None

(* C23: every step that changes the stored settings is a setCurrentNode(id) *)
(* that stores id as currentNodeId and leaves currentSpiralOrder, the API   *)
(* key and the completion set as they were; and when an available spiral    *)
(* candidate exists, the node recommended under spiral preference is the    *)
(* same after the step as before.                                           *)
C23_SetCurrentNodeFrame ==
  [][settings' # settings =>
       /\ \E id \in Ids : StoredField(settings', "currentNodeId") = Some(id)
       /\ StoredField(settings', "currentSpiralOrder")
            = StoredField(settings, "currentSpiralOrder")
       /\ StoredField(settings', "openAiApiKey") = StoredField(settings, "openAiApiKey")
       /\ getCompletedNodeIds(rows') = getCompletedNodeIds(rows)
       /\ \A pass1 \in {FirstPassMap(nodes, getCompletedNodeIds(rows))} :
            SpiralCandidates(pass1) # {} =>
              \A impl \in SortImpls :
                computeRecommendedNextNodeId(nodes', pass1, settings', Some(TRUE), impl)
                = computeRecommendedNextNodeId(nodes, pass1, settings, Some(TRUE), impl)
  ]_vars

(* C23's case: the current node was set to a node other than the seeded     *)
(* one, on a store with a completed node, a saved API key and an available  *)
(* spiral candidate.                                                        *)
C23_Witness ==
  /\ IsSome(settings)
  /\ settings # SeededSettings(nodes)
  /\ StoredField(settings, "openAiApiKey") = Some("sk")
  /\ StoredField(settings, "currentSpiralOrder") = Some(1)
  /\ CompletionSet # {}
  /\ SpiralCandidates(FirstPassMap(nodes, CompletionSet)) # {}

(* C24: no deadlock: on a catalog with unique ids, no dangling dependency   *)
(* and no dependency cycle, whenever some node of the catalog is not in     *)
(* the completion set, the map computeNodeStatuses returns had an available *)
(* node after the first pass and has exactly one node with status "next".   *)
C24_NoDeadlock ==
  ( /\ returned
    /\ DependencySound(nodes)
    /\ ~(NodeIdsOf(nodes) \subseteq CompletionSet) )
  => /\ WithStatus(firstPass, "available") # {}
     /\ Cardinality(WithStatus(statusMap, "next")) = 1

(* C24's case: a sound catalog of three nodes with dependencies, one node   *)
(* completed, one locked, and a map was returned.                           *)
C24_Witness ==
  /\ returned
  /\ DependencySound(nodes)
  /\ Len(nodes) = 3
  /\ Cardinality(CompletionSet) = 1
  /\ WithStatus(statusMap, "locked") # {}
  /\ Cardinality(WithStatus(statusMap, "next")) = 1

----------------------------------------------------------------------------
(* Following the recommendation: on a validated catalog with nothing        *)
(* completed, computeNodeStatuses is called and the node it marks "next"    *)
(* is marked completed, again and again. The clock counts the markings:     *)
(* seeding ran at time 0 and the k-th marking reads time k.                 *)

(* More markings than a catalog has nodes.                                  *)
MaxSteps == 4

StepsTaken ==
  CHOOSE k \in 0..MaxSteps :
    /\ \A id \in DOMAIN rows : rows[id].updatedAt <= k
    /\ k = 0 \/ \E id \in DOMAIN rows : rows[id].updatedAt = k

(* The settings rows: an unset, seeded or chosen current node, an unset     *)
(* current spiral order or one of the orders of the catalogs.               *)
FollowSettings ==
  {None} \cup
  {Some([currentNodeId |-> c, currentSpiralOrder |-> o, openAiApiKey |-> None]) :
     c \in {None, Some("a"), Some("c"), Some("ego_formation")},
     o \in {None} \cup {Some(k) : k \in 1..MaxOrder}}

(* The validated catalogs that are followed: three nodes, a without        *)
(* dependencies, b with none or a, c with b or with a and b.                *)
FollowCatalogs == {c \in ClockCatalogs : DependencySound(c)}

InitFollow ==
  /\ nodes \in FollowCatalogs
  /\ rows = SeededRowsAt(nodes, 0)
  /\ settings \in FollowSettings
  /\ prefer = TRUE
  /\ firstPass = EmptyMap
  /\ statusMap = EmptyMap
  /\ nextNodeId = None
  /\ returned = FALSE
  /\ thrown = None
  /\ ValidatorIdle
  /\ MapIdle

(* The status computation is run after the marking, or run again.           *)
Recompute ==
  \E opts \in {None, Some(TRUE), Some(FALSE)}, impl \in SortImpls :
    ComputeNodeStatuses(opts, impl)

(* The node the returned map marks "next" is marked completed.              *)
FollowNext ==
  /\ returned
  /\ StepsTaken < MaxSteps
  /\ \E id \in WithStatus(statusMap, "next") :
       MarkNodeCompletedAt(id, TRUE, StepsTaken + 1, StepsTaken + 1)

NextFollow == Recompute \/ FollowNext

SpecFollow ==
  InitFollow /\ [][NextFollow]_vars /\ WF_vars(Recompute) /\ WF_vars(FollowNext)

AllCompleted == NodeIdsOf(nodes) \subseteq CompletionSet

(* Every marking so far completed another node, and after its               *)
(* dependencies.                                                            *)
FollowedInOrder ==
  /\ StepsTaken = Cardinality(CompletionSet)
  /\ \A n \in Range(nodes) :
       n.id \in CompletionSet =>
         \A d \in Range(n.dependencies) :
           /\ d \in CompletionSet
           /\ Get(rows[d].completedAt) < Get(rows[n.id].completedAt)

(* C25: following the recommendation terminates: from the empty completion  *)
(* set on a validated catalog of N nodes, for every stored current node,    *)
(* current spiral order and preference, every marking of the "next" node    *)
(* completes one more node, never a node before its dependencies, and the   *)
(* state where all N nodes are completed is reached (after N markings) and  *)
(* kept.                                                                    *)
C25_FollowingTerminates ==
  /\ [](FollowedInOrder /\ thrown = None)
  /\ <>[](AllCompleted /\ StepsTaken = Len(nodes))

(* C25's case: a catalog of three nodes with a chain of dependencies, all   *)
(* completed by three markings, the computation run once more.              *)
C25_Witness ==
  /\ Len(nodes) = 3
  /\ \E n \in Range(nodes) : Len(n.dependencies) = 2
  /\ AllCompleted
  /\ StepsTaken = 3
  /\ returned
  /\ WithStatus(statusMap, "completed") = NodeIdsOf(nodes)

(* ---- Completion before locking ---- *)

(* The ids of the nodes that list d among their dependencies.               *)
DependentsOf(d) ==
  {nodes[i].id : i \in {j \in 1..Len(nodes) : d \in Range(nodes[j].dependencies)}}

(* The map a call returns for the stored rows, and the one it returns once  *)
(* markNodeCompleted(d, false) has run.                                     *)
StatusesOf(rs, impl) ==
  computeNodeStatuses(nodes, getCompletedNodeIds(rs), settings, Some(prefer), impl)

Unmarked(d) == markNodeCompleted(rows, d, FALSE, MaxClock, MaxClock).rows

(* A returned map reports every completed node as "completed", the entry    *)
(* carrying no unmetDependencies.                                           *)
CompletedReported ==
  returned =>
    \A id \in CompletionSet \cap DOMAIN statusMap :
      statusMap[id] = [nodeId |-> id, status |-> "completed"]

(* Un-marking d leaves the entry of every other completed node as it was.   *)
CompletedDependentsKept(d, before, after) ==
  \A m \in (CompletionSet \ {d}) \cap DOMAIN before : after[m] = before[m]

(* The nodes that are "locked" after the un-marking and were not before.    *)
NewlyLocked(before, after) ==
  {m \in DOMAIN before : after[m].status = "locked" /\ before[m].status # "locked"}

(* C26: a node of the completion set is reported "completed" without        *)
(* unmetDependencies whatever the state of its dependencies; un-marking a   *)
(* completed node d leaves every other completed node's entry unchanged,    *)
(* and the nodes that become "locked" are non-completed dependents of d or  *)
(* d itself (when a dependency of d is not completed).                      *)
C26_CompletionPrecedence ==
  /\ CompletedReported
  /\ \A d \in CompletionSet, impl \in SortImpls :
       \A before \in {StatusesOf(rows, impl)} :
         \A after \in {StatusesOf(Unmarked(d), impl)} :
           /\ CompletedDependentsKept(d, before, after)
           /\ NewlyLocked(before, after) \subseteq {d} \cup (DependentsOf(d) \ CompletionSet)

(* C26 as stated: only non-completed dependents of d become "locked".       *)
C26_OnlyDependentsLocked ==
  /\ CompletedReported
  /\ \A d \in CompletionSet, impl \in SortImpls :
       \A before \in {StatusesOf(rows, impl)} :
         \A after \in {StatusesOf(Unmarked(d), impl)} :
           /\ CompletedDependentsKept(d, before, after)
           /\ NewlyLocked(before, after) \subseteq DependentsOf(d) \ CompletionSet

(* C26's case: a was completed and un-marked again, its dependent b is      *)
(* still completed and reported so, and the non-completed c is locked.      *)
C26_Witness ==
  /\ returned
  /\ "a" \notin CompletionSet
  /\ rows["a"].updatedAt = MaxClock
  /\ "b" \in CompletionSet
  /\ rows["b"].updatedAt < MaxClock
  /\ "a" \in Range(NodeWithId("b").dependencies)
  /\ statusMap["b"] = [nodeId |-> "b", status |-> "completed"]
  /\ statusMap["c"].status = "locked"

(* ---- The completion set under the guarded toggle ---- *)

(* C27: through the toggle handler that refuses a node shown as "locked",   *)
(* every completed node of the catalog has all its dependencies completed,  *)
(* in every reachable state of the journey map.                             *)
C27_DependencyClosed ==
  \A i \in 1..Len(nodes) :
    nodes[i].id \in CompletionSet => Range(nodes[i].dependencies) \subseteq CompletionSet

(* ---- Soundness of the cycle detection ---- *)

(* The sets visiting and visited and the failure of detectCycles when it    *)
(* ends on the file, as main calls it (validate-nodes.ts:89-96).            *)
DetectCyclesEnd ==
  LET idSeq == [i \in 1..Len(nodes) |-> nodes[i].id]
      depsMap == [id \in NodeIdsOf(nodes) |-> LastWithId(nodes, id).dependencies]
  IN  dfsAll(Range(idSeq), depsMap,
             [visiting |-> {}, visited |-> {}, failed |-> None], idSeq, 1)

(* The dependency graph of the file has no cycle and no dangling reference. *)
GraphSound ==
  /\ Dangling(nodes) = {}
  /\ ~HasCycle(LAMBDA a, b : DependencyEdge(nodes, a, b))

(* Some node of the file is reached along two dependency paths: n depends   *)
(* on d directly and on m, which depends on d.                              *)
SharedDependency ==
  \E n, m, d \in NodeIdsOf(nodes) :
    /\ n # m /\ m # d /\ n # d
    /\ DependencyEdge(nodes, n, d)
    /\ DependencyEdge(nodes, n, m)
    /\ DependencyEdge(nodes, m, d)

(* The diamond top -> left, right -> bottom over four ids, in every order   *)
(* of the ids and both orders of top's dependencies.                        *)
DiamondIds == {"top", "left", "right", "bottom"}

DiamondOrders ==
  {o \in [1..4 -> DiamondIds] : \A i, j \in 1..4 : o[i] = o[j] => i = j}

DiamondDeps ==
  {[id \in DiamondIds |->
      CASE id = "top" -> first
        [] id = "bottom" -> <<>>
        [] OTHER -> <<"bottom">>]
   : first \in {<<"left", "right">>, <<"right", "left">>}}

DiamondsPass ==
  \A idSeq \in DiamondOrders, depsMap \in DiamondDeps :
    detectCycles(idSeq, depsMap) = None

(* C28: on a file whose dependency graph is acyclic and free of dangling    *)
(* references detectCycles returns without a failure, every node explored,  *)
(* and the validator does not end with a cycle or a missing dependency      *)
(* error; so it does on the four-node diamond; on any file, a reported      *)
(* cycle holds no node that was fully explored before.                      *)
C28_CycleDetectionSound ==
  \A end \in {DetectCyclesEnd} :
    /\ DiamondsPass
    /\ GraphSound =>
         /\ end.failed = None
         /\ end.visited = NodeIdsOf(nodes)
         /\ end.visiting = {}
         /\ ~FailedWith("cycle")
         /\ ~FailedWith("missing_dependency")
    /\ (IsSome(end.failed) /\ Get(end.failed).kind = "cycle") =>
         Range(Get(end.failed).cycle) \cap end.visited = {}
    /\ FailedWith("cycle") => Get(message) = Get(end.failed)

(* C28's case: detectCycles has run on an acyclic file in which a node is   *)
(* reached along two paths, and the validator went on to the parent check.  *)
C28_Witness ==
  /\ pc = "parents"
  /\ GraphSound
  /\ SharedDependency
  /\ DetectCyclesEnd.failed = None

----------------------------------------------------------------------------
(* seed.ts on the store, and the handlers that clear or replace             *)
(* db.userNodeStates.                                                       *)

(* An ensureUserNodeStateRows that writes a fresh row for every node of the *)
(* catalog (bulkPut in place of the filtered bulkAdd).                      *)
ensureUserNodeStateRowsPut(ns, rs, now) ==
  [id \in DOMAIN rs \cup NodeIdsOf(ns) |->
     IF id \in NodeIdsOf(ns)
     THEN [nodeId |-> id, completedAt |-> None, updatedAt |-> now]
     ELSE rs[id]]

(* ensureUserNodeStateRows (seed.ts:66-85) on the catalog ns and the table  *)
(* rs, nowIso() returning now: the table it leaves.  progressNotes,         *)
(* personalizedSummary and commitments are not represented.                 *)
ensureUserNodeStateRows(ns, rs, now) ==
  [id \in DOMAIN rs \cup NodeIdsOf(ns) |->
     IF id \in DOMAIN rs
     THEN rs[id]
     ELSE [nodeId |-> id, completedAt |-> None, updatedAt |-> now]]

(* upsertGlobalSettings (seed.ts:90-107) as seedNodeDefinitionsFromUrl      *)
(* calls it (seed.ts:51-54): the row it puts; no file of the model has a    *)
(* node "ego_formation".                                                    *)
upsertGlobalSettings(st, ns) ==
  LET firstSpiral == Find(ns, LAMBDA n : n.type = "spiral")
  IN  Some([currentNodeId |-> Some(IF IsSome(firstSpiral) THEN Get(firstSpiral).id
                                   ELSE "ego_formation"),
            currentSpiralOrder |-> Some(1),
            openAiApiKey |-> IF IsSome(st) THEN Get(st).openAiApiKey ELSE None])

(* seedNodeDefinitionsFromUrl(url, {force}) (seed.ts:26-60) on the store    *)
(* <<ns, rs, st>> when the url serves file: the store it leaves and whether *)
(* it seeded.                                                               *)
seedNodeDefinitionsFromUrl(ns, rs, st, file, force, now) ==
  IF Len(ns) > 0 /\ ~force
  THEN [seeded |-> FALSE, nodes |-> ns, rows |-> rs, settings |-> st]
  ELSE [seeded |-> TRUE,
        nodes |-> file,
        rows |-> ensureUserNodeStateRows(file, rs, now),
        settings |-> upsertGlobalSettings(st, file)]

(* The files /nodes.json can hold.                                          *)
SeedFiles == MapCatalogs

(* The tables an import payload can hold: rows for any ids, completed or    *)
(* not, exported at time 1; the import runs at time MaxClock.               *)
ImportedRows ==
  UNION {[S -> {[completedAt |-> c, updatedAt |-> 1] : c \in {None, Some(1)}}]
         : S \in SUBSET Ids}

(* A page's load effect (JourneyMapCanvas.tsx:117-118, and the same two     *)
(* calls in the chat pages): seedNodeDefinitionsFromUrl("/nodes.json"),     *)
(* then ensureUserNodeStateRows; the debug page's refreshData(forceSeed)    *)
(* (app/debug/page.tsx:89-105) passes force.                                *)
LoadEffect(file, force, now) ==
  LET seed == seedNodeDefinitionsFromUrl(nodes, rows, settings, file, force, now)
  IN  /\ nodes' = seed.nodes
      /\ settings' = seed.settings
      /\ rows' = ensureUserNodeStateRows(seed.nodes, seed.rows, now)
      /\ thrown' = None
      /\ NoResult
      /\ UNCHANGED <<validatorVars, mapVars>>

(* handleFactoryReset (app/debug/page.tsx:127-157): the user tables are     *)
(* cleared, then refreshData(false) seeds an empty catalog and ensures the  *)
(* rows.                                                                    *)
HandleFactoryReset(file, now) ==
  LET seed == seedNodeDefinitionsFromUrl(nodes, EmptyMap, None, file, FALSE, now)
  IN  /\ nodes' = seed.nodes
      /\ settings' = seed.settings
      /\ rows' = ensureUserNodeStateRows(seed.nodes, seed.rows, now)
      /\ thrown' = None
      /\ NoResult
      /\ UNCHANGED <<validatorVars, mapVars>>

(* The settings rows an import payload can hold: none, or the global row    *)
(* with or without an API key.                                              *)
ImportedSettings ==
  {None} \cup {Some([currentNodeId |-> Some("a"),
                     currentSpiralOrder |-> Some(1),
                     openAiApiKey |-> k]) : k \in {None, Some("sk")}}

(* The journey map's import handler (part_004:429-482): userNodeStates and  *)
(* appSettings are replaced by the payload's, a settings row without an API *)
(* key taking the stored one; then ensureUserNodeStateRows.                 *)
HandleImport(imported, importedSettings, now) ==
  LET preservedApiKey == IF IsSome(settings) THEN Get(settings).openAiApiKey ELSE None
  IN  /\ rows' = ensureUserNodeStateRows(
                   nodes, [id \in DOMAIN imported |->
                             [nodeId |-> id,
                              completedAt |-> imported[id].completedAt,
                              updatedAt |-> imported[id].updatedAt]], now)
      /\ settings' =
           IF IsSome(importedSettings)
           THEN Some([Get(importedSettings) EXCEPT
                        !.openAiApiKey = IF IsSome(@) THEN @ ELSE preservedApiKey])
           ELSE None
      /\ thrown' = None
      /\ NoResult
      /\ UNCHANGED <<nodes, validatorVars, mapVars>>

(* A fresh database: no table has a row.                                    *)
InitSeed ==
  /\ nodes = <<>>
  /\ rows = EmptyMap
  /\ settings = None
  /\ prefer = TRUE
  /\ firstPass = EmptyMap
  /\ statusMap = EmptyMap
  /\ nextNodeId = None
  /\ returned = FALSE
  /\ thrown = None
  /\ ValidatorIdle
  /\ MapIdle

NextSeed ==
  \/ \E file \in SeedFiles, force \in BOOLEAN, now \in Times : LoadEffect(file, force, now)
  \/ \E file \in SeedFiles, now \in Times : HandleFactoryReset(file, now)
  \/ \E imported \in ImportedRows, importedSettings \in ImportedSettings :
       HandleImport(imported, importedSettings, MaxClock)
  \/ \E id \in Ids, completed \in BOOLEAN, now \in Times :
       MarkNodeCompletedAt(id, completed, now, now)

SpecSeed == InitSeed /\ [][NextSeed]_vars

(* ---- The rows after seeding ---- *)

(* What the claim says of the table after, left by ensureUserNodeStateRows  *)
(* on the catalog ns and the stored rows.                                   *)
RowsEnsured(ns, after) ==
  /\ NodeIdsOf(ns) \subseteq DOMAIN after
  /\ \A id \in DOMAIN after \ DOMAIN rows : after[id].completedAt = None
  /\ \A id \in DOMAIN rows : id \in DOMAIN after /\ after[id].completedAt = rows[id].completedAt
  /\ getCompletedNodeIds(after) = getCompletedNodeIds(rows)
  /\ \A id \in NodeIdsOf(ns), completed \in BOOLEAN :
       markNodeCompleted(after, id, completed, MaxClock, MaxClock).thrown = None

(* C29: ensureUserNodeStateRows, on the stored catalog or a newly seeded    *)
(* one, leaves a row for every node of the catalog, creates only rows that  *)
(* are not completed and keeps the completedAt of every row there was; so   *)
(* seedNodeDefinitionsFromUrl, forced or not, keeps the completion set, and *)
(* once a page has loaded markNodeCompleted throws for no catalog node.     *)
C29_EnsureCompletesRows ==
  /\ \A now \in Times :
       /\ RowsEnsured(nodes, ensureUserNodeStateRows(nodes, rows, now))
       /\ \A file \in SeedFiles :
            /\ RowsEnsured(file, ensureUserNodeStateRows(file, rows, now))
            /\ ensureUserNodeStateRows(file, EmptyMap, now) = SeededRowsAt(file, now)
            /\ \A force \in BOOLEAN :
                 \A seed \in {seedNodeDefinitionsFromUrl(nodes, rows, settings, file, force, now)} :
                   /\ getCompletedNodeIds(seed.rows) = CompletionSet
                   /\ seed.seeded => RowsEnsured(seed.nodes, seed.rows)
  /\ NodeIdsOf(nodes) \subseteq DOMAIN rows
  /\ \A id \in NodeIdsOf(nodes) :
       markNodeCompleted(rows, id, TRUE, MaxClock, MaxClock).thrown = None

(* C29's case: a catalog was seeded over a table that held a completed row  *)
(* of a node the new catalog lacks, and the new node's row is not           *)
(* completed.                                                               *)
C29_Witness ==
  /\ Len(nodes) > 0
  /\ \E old \in CompletionSet \ NodeIdsOf(nodes) :
       \E new \in NodeIdsOf(nodes) :
         /\ rows[new].completedAt = None
         /\ rows[new].updatedAt > rows[old].updatedAt

(* ---- markNodeCompleted without a row ---- *)

(* The ids markNodeCompleted finds no row for.                              *)
Rowless == Ids \ DOMAIN rows

(* C30: markNodeCompleted on an id without a row throws and returns the     *)
(* table as it was: no row is created and the completion set and the        *)
(* statuses computed from the store are those of before; a step that ends   *)
(* with an error thrown changes nothing in the store nor in the last        *)
(* computed result.                                                         *)
C30_MissingRowThrows ==
  /\ [](\A id \in Rowless, completed \in BOOLEAN, now \in Times :
          \A call \in {markNodeCompleted(rows, id, completed, now, now)} :
            /\ IsSome(call.thrown)
            /\ call.rows = rows
            /\ id \notin DOMAIN call.rows
            /\ getCompletedNodeIds(call.rows) = CompletionSet
            /\ \A impl \in SortImpls :
                 computeNodeStatuses(nodes, getCompletedNodeIds(call.rows), settings, None, impl)
                 = computeNodeStatuses(nodes, CompletionSet, settings, None, impl))
  /\ [][IsSome(thrown') =>
          /\ Rowless # {}
          /\ UNCHANGED <<nodes, rows, settings, prefer, firstPass, statusMap,
                         nextNodeId, returned>>]_vars

(* C30's case: markNodeCompleted has thrown on a store with a catalog, a    *)
(* completed node and an id without a row.                                  *)
C30_Witness ==
  /\ IsSome(thrown)
  /\ Len(nodes) > 0
  /\ CompletionSet \cap NodeIdsOf(nodes) # {}
  /\ Rowless # {}

====
